---- MODULE Spec2Model ----
(***************************************************************************)
(* Keybinding resolution engine of vspdf: the when-clause expression       *)
(* engine (ContextKeyExpression.ts), the resolver (KeybindingResolver.ts), *)
(* the dispatcher (KeybindingService.ts) and the command registry          *)
(* (CommandRegistry).                                                      *)
(*                                                                         *)
(* Representation of JavaScript strings.  A when-clause is a sequence of   *)
(* one-character strings.  A key-sequence string "P+Q R" is the sequence   *)
(* of its blank-separated chords, and a chord is the sequence of its       *)
(* '+'-separated parts, so split(' ') / join('+') are the identity on the  *)
(* representation.  An optional string that the code only ever tests by    *)
(* truthiness (when, mac, win, linux) is <<>> when it is undefined or ''.  *)
(***************************************************************************)
EXTENDS Integers, Sequences, FiniteSets, TLC

-----------------------------------------------------------------------------
(* Bounds of the model *)

\* largest number of entries held by the keybinding table
MaxBindings == 2

\* longest chord sequence passed to a direct resolver.resolve call
MaxChords == 2

-----------------------------------------------------------------------------
(* ContextKeyValue = string | number | boolean | undefined (context/types.ts) *)

(* A number is n / 10^k with k the least possible, so that two values are  *)
(* === exactly when the records are equal.                                 *)

Undef == [t |-> "undefined", n |-> 0, k |-> 0, s |-> <<>>, b |-> FALSE]

Bool(x) == [t |-> "boolean", n |-> 0, k |-> 0, s |-> <<>>, b |-> x]

Num(x) == [t |-> "number", n |-> x, k |-> 0, s |-> <<>>, b |-> FALSE]

Str(x) == [t |-> "string", n |-> 0, k |-> 0, s |-> x, b |-> FALSE]

NaN == [t |-> "NaN", n |-> 0, k |-> 0, s |-> <<>>, b |-> FALSE]

\* context[key]: a key that is not in the map reads as undefined
Lookup(context, key) == IF key \in DOMAIN context THEN context[key] ELSE Undef

-----------------------------------------------------------------------------
(* Character classes used by ContextKeyExpressionParser *)

Digits == {"0", "1", "2", "3", "4", "5", "6", "7", "8", "9"}

Letters ==
    {"a", "b", "c", "d", "e", "f", "g", "h", "i", "j", "k", "l", "m",
     "n", "o", "p", "q", "r", "s", "t", "u", "v", "w", "x", "y", "z",
     "A", "B", "C", "D", "E", "F", "G", "H", "I", "J", "K", "L", "M",
     "N", "O", "P", "Q", "R", "S", "T", "U", "V", "W", "X", "Y", "Z"}

\* /[a-zA-Z0-9_.]/
IdentChars == Letters \cup Digits \cup {"_", "."}

\* /[a-zA-Z0-9_.-]/
ValueChars == IdentChars \cup {"-"}

\* /\s/
Whitespace == {" ", "\t", "\n"}

DigitValue(c) ==
    CASE c = "0" -> 0 [] c = "1" -> 1 [] c = "2" -> 2 [] c = "3" -> 3
      [] c = "4" -> 4 [] c = "5" -> 5 [] c = "6" -> 6 [] c = "7" -> 7
      [] c = "8" -> 8 [] c = "9" -> 9

\* input.substring(from, to) with 0-based positions
Substring(input, from, to) ==
    LET hi == IF to > Len(input) THEN Len(input) ELSE to
    IN  IF from >= hi THEN <<>> ELSE SubSeq(input, from + 1, hi)

\* input[pos] with a 0-based position; "" stands for undefined (past the end)
CharAt(input, pos) == IF pos < Len(input) THEN input[pos + 1] ELSE ""

\* input.substring(pos).startsWith(word)
StartsWith(input, pos, word) == Substring(input, pos, pos + Len(word)) = word

RECURSIVE SkipWhitespace(_, _)
SkipWhitespace(input, pos) ==
    IF pos < Len(input) /\ input[pos + 1] \in Whitespace
    THEN SkipWhitespace(input, pos + 1)
    ELSE pos

\* input.trim()
RECURSIVE TrimRight(_)
TrimRight(input) ==
    IF Len(input) > 0 /\ input[Len(input)] \in Whitespace
    THEN TrimRight(SubSeq(input, 1, Len(input) - 1))
    ELSE input

Trim(input) ==
    LET r == TrimRight(input)
    IN  Substring(r, SkipWhitespace(r, 0), Len(r))

-----------------------------------------------------------------------------
(* parseFloat on the text collected by parseValue: -?[0-9][0-9.]* *)

RECURSIVE Pow10(_)
Pow10(k) == IF k = 0 THEN 1 ELSE 10 * Pow10(k - 1)

\* number of leading characters of str, from 1-based index i, that are digits
RECURSIVE DigitRun(_, _)
DigitRun(str, i) ==
    IF i <= Len(str) /\ str[i] \in Digits THEN 1 + DigitRun(str, i + 1) ELSE 0

RECURSIVE DigitsToNat(_)
DigitsToNat(ds) ==
    IF ds = <<>> THEN 0
    ELSE 10 * DigitsToNat(SubSeq(ds, 1, Len(ds) - 1)) + DigitValue(ds[Len(ds)])

RECURSIVE StripTrailingZeros(_)
StripTrailingZeros(ds) ==
    IF ds # <<>> /\ ds[Len(ds)] = "0"
    THEN StripTrailingZeros(SubSeq(ds, 1, Len(ds) - 1))
    ELSE ds

ParseFloat(numStr) ==
    LET neg    == numStr # <<>> /\ numStr[1] = "-"
        first  == IF neg THEN 2 ELSE 1
        ilen   == DigitRun(numStr, first)
        int    == SubSeq(numStr, first, first + ilen - 1)
        dot    == first + ilen
        hasDot == dot <= Len(numStr) /\ numStr[dot] = "."
        flen   == IF hasDot THEN DigitRun(numStr, dot + 1) ELSE 0
        frac   == StripTrailingZeros(SubSeq(numStr, dot + 1, dot + flen))
        mag    == DigitsToNat(int \o frac)
    IN  IF ilen = 0 /\ flen = 0 THEN NaN
        ELSE [t |-> "number", n |-> IF neg THEN 0 - mag ELSE mag,
              k |-> Len(frac), s |-> <<>>, b |-> FALSE]

\* ToNumber, applied by the relational operators to their right operand
ToNumber(v) ==
    CASE v.t = "number"    -> v
      [] v.t = "boolean"   -> Num(IF v.b THEN 1 ELSE 0)
      [] v.t = "undefined" -> NaN
      [] v.t = "NaN"       -> NaN
      [] v.t = "string"    ->
            IF Trim(v.s) = <<>> THEN Num(0)
            ELSE LET str == Trim(v.s)
                     p   == ParseFloat(str)
                     neg == str[1] = "-"
                     il  == DigitRun(str, IF neg THEN 2 ELSE 1)
                     dt  == (IF neg THEN 2 ELSE 1) + il
                     fl  == IF dt <= Len(str) /\ str[dt] = "."
                            THEN 1 + DigitRun(str, dt + 1) ELSE 0
                 IN  IF p.t = "number" /\ dt + fl - 1 = Len(str) THEN p ELSE NaN

\* a < b on numbers n / 10^k
NumLess(a, b) == a.n * Pow10(b.k) < b.n * Pow10(a.k)

-----------------------------------------------------------------------------
(* ContextKeyExpressionParser.  Every parse operator returns               *)
(* [ok, pos, node]: ok = FALSE stands for a thrown Error, pos is this.pos  *)
(* after the call and node the value returned.                             *)

Fail == [ok |-> FALSE, pos |-> 0, node |-> <<>>]

Ok(pos, node) == [ok |-> TRUE, pos |-> pos, node |-> node]

\* peek(): skips whitespace, then answers '&&', '||', the next character or ''
Peek(input, pos) ==
    LET p == SkipWhitespace(input, pos)
    IN  IF p >= Len(input) THEN <<>>
        ELSE IF Substring(input, p, p + 2) \in {<<"&", "&">>, <<"|", "|">>}
             THEN Substring(input, p, p + 2)
             ELSE <<input[p + 1]>>

\* consume(token): node is unused
Consume(input, pos, token) ==
    LET p == SkipWhitespace(input, pos)
    IN  IF Substring(input, p, p + Len(token)) # token THEN Fail
        ELSE Ok(p + Len(token), <<>>)

Operators ==
    << <<"=", "=">>, <<"!", "=">>, <<">", "=">>, <<"<", "=">>,
       <<">">>, <<"<">>, <<"=", "~">>, <<"i", "n">> >>

\* peekOperator(): the first operator of the list found at pos, or <<>>
RECURSIVE PeekOperatorFrom(_, _, _)
PeekOperatorFrom(input, pos, i) ==
    IF i > Len(Operators) THEN <<>>
    ELSE IF Substring(input, pos, pos + Len(Operators[i])) = Operators[i]
         THEN Operators[i]
         ELSE PeekOperatorFrom(input, pos, i + 1)

PeekOperator(input, pos) == PeekOperatorFrom(input, pos, 1)

\* position after the longest run of characters of class cls starting at pos
RECURSIVE ScanWhile(_, _, _)
ScanWhile(input, pos, cls) ==
    IF pos < Len(input) /\ input[pos + 1] \in cls
    THEN ScanWhile(input, pos + 1, cls)
    ELSE pos

\* faulty variant: a missing identifier is not an error
ParseIdentifierLenient(input, pos) ==
    LET start == SkipWhitespace(input, pos)
        end   == ScanWhile(input, start, IdentChars)
    IN  Ok(end, Substring(input, start, end))

ParseIdentifier(input, pos) ==
    LET start == SkipWhitespace(input, pos)
        end   == ScanWhile(input, start, IdentChars)
    IN  IF start = end THEN Fail ELSE Ok(end, Substring(input, start, end))

\* the scanning loop of parseString and parseRegex: stops at the delimiter,
\* a backslash skips the character after it
RECURSIVE ScanQuoted(_, _, _)
ScanQuoted(input, pos, quote) ==
    IF pos < Len(input) /\ input[pos + 1] # quote
    THEN ScanQuoted(input, (IF input[pos + 1] = "\\" THEN pos + 1 ELSE pos) + 1,
                    quote)
    ELSE pos

ParseString(input, pos) ==
    LET quote == input[pos + 1]
        start == pos + 1
        end   == ScanQuoted(input, start, quote)
    IN  IF end >= Len(input) THEN Fail
        ELSE Ok(end + 1, Substring(input, start, end))

ParseValue(input, pos0) ==
    LET pos == SkipWhitespace(input, pos0)
        c   == CharAt(input, pos)
    IN  IF c \in {"\"", "'"} THEN
            LET r == ParseString(input, pos)
            IN  IF r.ok THEN Ok(r.pos, Str(r.node)) ELSE Fail
        ELSE IF StartsWith(input, pos, <<"t", "r", "u", "e">>) THEN
            Ok(pos + 4, Bool(TRUE))
        ELSE IF StartsWith(input, pos, <<"f", "a", "l", "s", "e">>) THEN
            Ok(pos + 5, Bool(FALSE))
        ELSE IF c \in Digits \/ (c = "-" /\ CharAt(input, pos + 1) \in Digits) THEN
            LET end == ScanWhile(input, IF c = "-" THEN pos + 1 ELSE pos,
                                 Digits \cup {"."})
            IN  Ok(end, ParseFloat(Substring(input, pos, end)))
        ELSE
            LET end == ScanWhile(input, pos, ValueChars)
            IN  IF pos = end THEN Fail
                ELSE Ok(end, Str(Substring(input, pos, end)))

\* the loop of parseArray; fuel bounds the iterations (each one consumes input)
RECURSIVE ParseArrayLoop(_, _, _, _)
ParseArrayLoop(input, pos, values, fuel) ==
    IF CharAt(input, pos) = "]" THEN
        LET c == Consume(input, pos, <<"]">>)
        IN  Ok(c.pos, values)
    ELSE IF fuel = 0 THEN Fail
    ELSE
        LET v == ParseValue(input, pos)
        IN  IF ~v.ok THEN Fail
            ELSE LET p == SkipWhitespace(input, v.pos)
                     q == IF CharAt(input, p) = ","
                          THEN SkipWhitespace(input, p + 1) ELSE p
                 IN  ParseArrayLoop(input, q, Append(values, v.node), fuel - 1)

ParseArray(input, pos) ==
    LET c == Consume(input, pos, <<"[">>)
    IN  IF ~c.ok THEN Fail
        ELSE ParseArrayLoop(input, SkipWhitespace(input, c.pos), <<>>,
                            Len(input))

\* parseRegex: a quoted string, or /pattern/flags kept with its slashes
ParseRegex(input, pos) ==
    LET c == CharAt(input, pos)
    IN  IF c \in {"\"", "'"} THEN ParseString(input, pos)
        ELSE IF c = "/" THEN
            LET close == ScanQuoted(input, pos + 1, "/")
            IN  IF close >= Len(input) THEN Fail
                ELSE LET end == ScanWhile(input, close + 1,
                                          {"g", "i", "m", "u", "y"})
                     IN  Ok(end, Substring(input, pos, end))
        ELSE Fail

(* The constructor of ContextKeyRegexExpr.  Regular expressions are        *)
(* modelled for literal patterns only: a pattern made of letters, digits   *)
(* and '_' compiles and matches the strings that contain it; any other     *)
(* pattern is outside the model and is reported as not compiling.          *)
LiteralChars == Letters \cup Digits \cup {"_"}

\* pattern.match(/^\/(.+?)\/([gimuy]*)$/): the least closing slash that is
\* followed by flags only
ClosingSlashes(pattern) ==
    {j \in 3..Len(pattern) :
        /\ pattern[j] = "/"
        /\ \A f \in (j + 1)..Len(pattern) :
               pattern[f] \in {"g", "i", "m", "u", "y"}}

RegexSource(pattern) ==
    IF pattern # <<>> /\ pattern[1] = "/" /\ ClosingSlashes(pattern) # {}
    THEN LET j == CHOOSE c \in ClosingSlashes(pattern) :
                      \A d \in ClosingSlashes(pattern) : c <= d
         IN  SubSeq(pattern, 2, j - 1)
    ELSE pattern

\* the flags of a /pattern/flags literal; a quoted pattern has none
RegexFlags(pattern) ==
    SubSeq(pattern, Len(RegexSource(pattern)) + 3, Len(pattern))

\* new RegExp(source, flags) throws for a flag given twice
RegexCompiles(pattern) ==
    LET src   == RegexSource(pattern)
        flags == RegexFlags(pattern)
    IN  /\ src # <<>>
        /\ \A i \in 1..Len(src) : src[i] \in LiteralChars
        /\ \A i, j \in 1..Len(flags) : flags[i] = flags[j] => i = j

UpperLetters ==
    <<"A", "B", "C", "D", "E", "F", "G", "H", "I", "J", "K", "L", "M",
      "N", "O", "P", "Q", "R", "S", "T", "U", "V", "W", "X", "Y", "Z">>

LowerLetters ==
    <<"a", "b", "c", "d", "e", "f", "g", "h", "i", "j", "k", "l", "m",
      "n", "o", "p", "q", "r", "s", "t", "u", "v", "w", "x", "y", "z">>

\* the case folding of the i flag
FoldCase(c) ==
    IF \E n \in 1..26 : UpperLetters[n] = c
    THEN LowerLetters[CHOOSE n \in 1..26 : UpperLetters[n] = c]
    ELSE c

\* the literal source matches value at offset i
MatchesAt(src, value, i, ignoreCase) ==
    /\ i + Len(src) <= Len(value)
    /\ \A n \in 1..Len(src) :
           IF ignoreCase THEN FoldCase(value[i + n]) = FoldCase(src[n])
           ELSE value[i + n] = src[n]

\* the offsets at which a search that starts at offset from can match
MatchOffsets(src, flags, value, from) ==
    {i \in from..(IF "y" \in flags THEN from ELSE Len(value)) :
        MatchesAt(src, value, i, "i" \in flags)}

\* the outcome of a search given the offsets where it can match
SearchOutcome(offsets, srcLen) ==
    IF offsets = {} THEN [matched |-> FALSE, lastIndex |-> 0]
    ELSE [matched   |-> TRUE,
          lastIndex |-> srcLen + (CHOOSE i \in offsets :
                                     \A j \in offsets : i <= j)]

(* regex.test(value) of a RegExp whose lastIndex is lastIndex: with the g  *)
(* or the y flag the search starts at lastIndex and leaves the end of the  *)
(* match, or 0 after a failure, in lastIndex; without them it starts at 0  *)
(* and lastIndex is not written                                            *)
RegexExec(pattern, value, lastIndex) ==
    LET flags == {RegexFlags(pattern)[n] : n \in 1..Len(RegexFlags(pattern))}
    IN  IF "g" \in flags \/ "y" \in flags
        THEN SearchOutcome(MatchOffsets(RegexSource(pattern), flags, value,
                                        lastIndex),
                           Len(RegexSource(pattern)))
        ELSE [matched   |-> MatchOffsets(RegexSource(pattern), flags, value,
                                         0) # {},
              lastIndex |-> lastIndex]

\* regex.test(value) of a RegExp that was just constructed
RegexTest(pattern, value) == RegexExec(pattern, value, 0).matched

ParseTerm(input, pos) ==
    LET id == ParseIdentifier(input, pos)
    IN  IF ~id.ok THEN Fail
        ELSE
            LET p  == SkipWhitespace(input, id.pos)
                op == PeekOperator(input, p)
                q  == SkipWhitespace(input, p + Len(op))
            IN  IF op = <<>> THEN Ok(p, [kind |-> "Defined", key |-> id.node])
                ELSE IF op = <<"=", "~">> THEN
                    LET r == ParseRegex(input, q)
                    IN  IF ~r.ok \/ ~RegexCompiles(r.node) THEN Fail
                        ELSE Ok(r.pos, [kind |-> "Regex", key |-> id.node,
                                        pattern |-> r.node])
                ELSE IF op = <<"i", "n">> THEN
                    LET a == ParseArray(input, q)
                    IN  IF ~a.ok THEN Fail
                        ELSE Ok(a.pos, [kind |-> "In", key |-> id.node,
                                        values |-> a.node])
                ELSE
                    LET v == ParseValue(input, q)
                    IN  IF ~v.ok THEN Fail
                        ELSE Ok(v.pos, [kind |-> "Compare", op |-> op,
                                        key |-> id.node, value |-> v.node])

RECURSIVE ParseOrExpr(_, _), ParseAndExpr(_, _), ParsePrimary(_, _)
RECURSIVE OrLoop(_, _, _), AndLoop(_, _, _)

\* parsePrimary after '!': e is what the nested parsePrimary gave
NegatedPrimary(e) ==
    IF ~e.ok THEN Fail ELSE Ok(e.pos, [kind |-> "Not", expr |-> e.node])

\* parsePrimary after '(': e is what parseOrExpr gave, then consume(')')
GroupedPrimary(input, e) ==
    IF ~e.ok THEN Fail
    ELSE LET c == Consume(input, e.pos, <<")">>)
         IN  IF ~c.ok THEN Fail ELSE Ok(c.pos, e.node)

ParsePrimary(input, pos) ==
    LET p  == SkipWhitespace(input, pos)
        tk == Peek(input, p)
    IN  IF tk = <<"!">> THEN NegatedPrimary(ParsePrimary(input, p + 1))
        ELSE IF tk = <<"(">> THEN GroupedPrimary(input, ParseOrExpr(input, p + 1))
        ELSE ParseTerm(input, p)

\* faulty variant: the operands of && are joined by an Or node
AndStepAsOr(input, left, r) ==
    IF ~r.ok THEN Fail
    ELSE AndLoop(input, r.pos, [kind |-> "Or", left |-> left, right |-> r.node])

\* one iteration of the loop of parseAndExpr: r is the right operand
AndStep(input, left, r) ==
    IF ~r.ok THEN Fail
    ELSE AndLoop(input, r.pos, [kind |-> "And", left |-> left, right |-> r.node])

\* while (this.peek() === '&&') of parseAndExpr
AndLoop(input, pos, left) ==
    IF Peek(input, pos) = <<"&", "&">>
    THEN AndStep(input, left,
                 ParsePrimary(input, Consume(input, pos, <<"&", "&">>).pos))
    ELSE Ok(SkipWhitespace(input, pos), left)

\* parseAndExpr from its first operand l on
AndFrom(input, l) ==
    IF ~l.ok THEN Fail ELSE AndLoop(input, l.pos, l.node)

ParseAndExpr(input, pos) == AndFrom(input, ParsePrimary(input, pos))

\* one iteration of the loop of parseOrExpr: r is the right operand
OrStep(input, left, r) ==
    IF ~r.ok THEN Fail
    ELSE OrLoop(input, r.pos, [kind |-> "Or", left |-> left, right |-> r.node])

\* while (this.peek() === '||') of parseOrExpr
OrLoop(input, pos, left) ==
    IF Peek(input, pos) = <<"|", "|">>
    THEN OrStep(input, left,
                ParseAndExpr(input, Consume(input, pos, <<"|", "|">>).pos))
    ELSE Ok(SkipWhitespace(input, pos), left)

\* parseOrExpr from its first operand l on
OrFrom(input, l) ==
    IF ~l.ok THEN Fail ELSE OrLoop(input, l.pos, l.node)

ParseOrExpr(input, pos) == OrFrom(input, ParseAndExpr(input, pos))

\* faulty variant: characters after the expression are ignored
WholeInputPrefix(input, e) ==
    IF ~e.ok THEN Fail ELSE e

\* parse(): the whole input must have been used
WholeInput(input, e) ==
    IF ~e.ok \/ e.pos < Len(input) THEN Fail ELSE e

\* ContextKeyExpressionParser.parse on the trimmed input
ParserParse(input) == WholeInput(input, ParseOrExpr(input, 0))

\* ContextKeyExpression.parse: [ok |-> FALSE] stands for null
Parse(when) ==
    IF when = <<>> THEN Fail ELSE ParserParse(Trim(when))

-----------------------------------------------------------------------------
(* evaluate(context) of the expression classes *)

\* faulty variant: every value other than undefined is accepted
TruthyDefined(v) ==
    v # Undef

Truthy(v) ==
    v # Undef /\ v # Bool(FALSE) /\ v # Num(0) /\ v # Str(<<>>)

\* faulty variant: the relational operators without the typeof check, so
\* that the context value is converted as well
EvalCompareCoercing(op, actual, value) ==
    LET rhs == ToNumber(value)
        lhs == ToNumber(actual)
    IN  CASE op = <<"=", "=">> -> actual = value
          [] op = <<"!", "=">> -> actual # value
          [] op = <<">">>      ->
                lhs.t = "number" /\ rhs.t = "number" /\ NumLess(rhs, lhs)
          [] op = <<">", "=">> ->
                lhs.t = "number" /\ rhs.t = "number" /\ ~NumLess(lhs, rhs)
          [] op = <<"<">>      ->
                lhs.t = "number" /\ rhs.t = "number" /\ NumLess(lhs, rhs)
          [] op = <<"<", "=">> ->
                lhs.t = "number" /\ rhs.t = "number" /\ ~NumLess(rhs, lhs)

EvalCompare(op, actual, value) ==
    LET rhs == ToNumber(value)
    IN  CASE op = <<"=", "=">> -> actual = value
          [] op = <<"!", "=">> -> actual # value
          [] op = <<">">>      ->
                actual.t = "number" /\ rhs.t = "number" /\ NumLess(rhs, actual)
          [] op = <<">", "=">> ->
                actual.t = "number" /\ rhs.t = "number" /\ ~NumLess(actual, rhs)
          [] op = <<"<">>      ->
                actual.t = "number" /\ rhs.t = "number" /\ NumLess(actual, rhs)
          [] op = <<"<", "=">> ->
                actual.t = "number" /\ rhs.t = "number" /\ ~NumLess(rhs, actual)

RECURSIVE Evaluate(_, _)
Evaluate(expr, context) ==
    CASE expr.kind = "Defined" -> Truthy(Lookup(context, expr.key))
      [] expr.kind = "Compare" ->
            EvalCompare(expr.op, Lookup(context, expr.key), expr.value)
      [] expr.kind = "Regex" ->
            LET value == Lookup(context, expr.key)
            IN  value.t = "string" /\ RegexTest(expr.pattern, value.s)
      [] expr.kind = "In" ->
            \E i \in 1..Len(expr.values) :
                expr.values[i] = Lookup(context, expr.key)
      [] expr.kind = "Not" -> ~Evaluate(expr.expr, context)
      [] expr.kind = "And" ->
            Evaluate(expr.left, context) /\ Evaluate(expr.right, context)
      [] expr.kind = "Or" ->
            Evaluate(expr.left, context) \/ Evaluate(expr.right, context)

(* evaluate(context) of an expression that is kept and evaluated again:    *)
(* lastIndex maps the path of a ContextKeyRegexExpr inside the expression  *)
(* to the lastIndex of its RegExp, 0 where the path is not in the domain   *)
IndexAt(lastIndex, path) ==
    IF path \in DOMAIN lastIndex THEN lastIndex[path] ELSE 0

SetIndex(lastIndex, path, n) ==
    IF n = 0 /\ DOMAIN lastIndex \ {path} = {} THEN <<>>
    ELSE [p \in (DOMAIN lastIndex \ {path})
                   \cup (IF n = 0 THEN {} ELSE {path}) |->
             IF p = path THEN n ELSE lastIndex[p]]

RegexOutcome(r, lastIndex, path) ==
    [value |-> r.matched, lastIndex |-> SetIndex(lastIndex, path, r.lastIndex)]

Negated(r) == [value |-> ~r.value, lastIndex |-> r.lastIndex]

RECURSIVE EvaluateHeld(_, _, _, _)

\* left && right: right is evaluated only if left is true
AndRight(l, expr, context, path) ==
    IF l.value
    THEN EvaluateHeld(expr.right, context, l.lastIndex, Append(path, "right"))
    ELSE l

\* left || right: right is evaluated only if left is false
OrRight(l, expr, context, path) ==
    IF l.value THEN l
    ELSE EvaluateHeld(expr.right, context, l.lastIndex, Append(path, "right"))

EvaluateHeld(expr, context, lastIndex, path) ==
    CASE expr.kind = "Regex" ->
            IF Lookup(context, expr.key).t = "string"
            THEN RegexOutcome(RegexExec(expr.pattern,
                                        Lookup(context, expr.key).s,
                                        IndexAt(lastIndex, path)),
                              lastIndex, path)
            ELSE [value |-> FALSE, lastIndex |-> lastIndex]
      [] expr.kind = "Not" ->
            Negated(EvaluateHeld(expr.expr, context, lastIndex,
                                 Append(path, "expr")))
      [] expr.kind = "And" ->
            AndRight(EvaluateHeld(expr.left, context, lastIndex,
                                  Append(path, "left")),
                     expr, context, path)
      [] expr.kind = "Or" ->
            OrRight(EvaluateHeld(expr.left, context, lastIndex,
                                 Append(path, "left")),
                    expr, context, path)
      [] OTHER -> [value |-> Evaluate(expr, context), lastIndex |-> lastIndex]

-----------------------------------------------------------------------------
(* Keybinding table: KeybindingResolver.ts *)

Platforms == {"mac", "win", "linux"}

\* faulty variant: the mac order on every platform
ModifierOrderMac(plat) == <<"Ctrl", "Alt", "Shift", "Cmd">>

\* the order in which eventToChord pushes the modifiers that are held
ModifierOrder(plat) ==
    IF plat = "mac" THEN <<"Ctrl", "Alt", "Shift", "Cmd">>
    ELSE <<"Ctrl", "Shift", "Alt", "Meta">>

\* the canonical modifier order of normalizeKeybinding
CanonicalOrder(plat) ==
    CASE plat = "mac" -> <<"Ctrl", "Alt", "Shift", "Cmd">>
      [] OTHER        -> <<"Ctrl", "Shift", "Alt", "Meta">>

SeqToSet(q) == {q[i] : i \in 1..Len(q)}

\* one chord of normalizeKeybinding: the known modifiers in platform order,
\* then the unknown ones in the order written, then the key
NormalizeChord(chord, plat) ==
    IF chord = <<>> THEN <<>>
    ELSE
        LET mods    == SubSeq(chord, 1, Len(chord) - 1)
            order   == CanonicalOrder(plat)
            InMods(m)  == m \in SeqToSet(mods)
            Unknown(m) == m \notin SeqToSet(order)
        IN  SelectSeq(order, InMods) \o SelectSeq(mods, Unknown)
                \o <<chord[Len(chord)]>>

NormalizeKeybinding(keySequence, plat) ==
    [i \in 1..Len(keySequence) |-> NormalizeChord(keySequence[i], plat)]

GetKeySequence(kb, plat) ==
    CASE plat = "mac"   -> IF kb.mac # <<>> THEN kb.mac ELSE kb.key
      [] plat = "win"   -> IF kb.win # <<>> THEN kb.win ELSE kb.key
      [] plat = "linux" -> IF kb.linux # <<>> THEN kb.linux ELSE kb.key

\* array.findIndex: the least index that satisfies Test, 0 for -1
FindIndex(q, Test(_)) ==
    IF \E i \in 1..Len(q) : Test(q[i])
    THEN CHOOSE i \in 1..Len(q) : Test(q[i]) /\ \A j \in 1..(i - 1) : ~Test(q[j])
    ELSE 0

\* array.splice(index, 1)
RemoveAt(q, index) == SubSeq(q, 1, index - 1) \o SubSeq(q, index + 1, Len(q))

\* getAll(): a copy of the list
GetAll(list) == list

\* lookupKeybinding(commandId): <<>> stands for undefined
LookupKeybinding(list, commandId) ==
    LET ForCommand(kb) == kb.commandId = commandId
        found          == SelectSeq(list, ForCommand)
    IN  IF found = <<>> THEN <<>> ELSE <<found[1]>>

\* keybindingMap.get(chord) || []
MapGet(map, chord) == IF chord \in DOMAIN map THEN map[chord] ELSE <<>>

MapSet(map, chord, bucket) ==
    [c \in DOMAIN map \cup {chord} |-> IF c = chord THEN bucket ELSE map[c]]

MapDelete(map, chord) == [c \in DOMAIN map \ {chord} |-> map[c]]

\* the entry that register stores
Normalized(kb, plat) ==
    [kb EXCEPT !.key   = NormalizeKeybinding(kb.key, plat),
               !.mac   = NormalizeKeybinding(kb.mac, "mac"),
               !.win   = NormalizeKeybinding(kb.win, "win"),
               !.linux = NormalizeKeybinding(kb.linux, "linux")]

\* faulty variant: the entry is put at the front of its bucket
RegisterFront(list, map, kb, plat) ==
    LET nkb         == Normalized(kb, plat)
        keySequence == GetKeySequence(nkb, plat)
    IN  [list |-> Append(list, nkb),
         map  |-> IF keySequence = <<>> THEN map
                  ELSE MapSet(map, keySequence[1],
                              <<nkb>> \o MapGet(map, keySequence[1]))]

\* register: the new value of [list, map]
Register(list, map, kb, plat) ==
    LET nkb         == Normalized(kb, plat)
        keySequence == GetKeySequence(nkb, plat)
    IN  [list |-> Append(list, nkb),
         map  |-> IF keySequence = <<>> THEN map
                  ELSE MapSet(map, keySequence[1],
                              Append(MapGet(map, keySequence[1]), nkb))]

\* faulty variant: an entry without key sequence is left in the list
UnregisterIndexedOnly(list, map, id, plat) ==
    LET HasId(kb) == kb.id = id
        index     == FindIndex(list, HasId)
    IN  IF index = 0 THEN [list |-> list, map |-> map]
        ELSE
            LET keySequence == GetKeySequence(list[index], plat)
                newList     == RemoveAt(list, index)
            IN  IF keySequence = <<>> \/ keySequence[1] \notin DOMAIN map
                THEN [list |-> list, map |-> map]
                ELSE
                    LET existing == map[keySequence[1]]
                        mapIndex == FindIndex(existing, HasId)
                        bucket   == IF mapIndex = 0 THEN existing
                                    ELSE RemoveAt(existing, mapIndex)
                    IN  [list |-> newList,
                         map  |-> IF bucket = <<>>
                                  THEN MapDelete(map, keySequence[1])
                                  ELSE MapSet(map, keySequence[1], bucket)]

\* faulty variant: a bucket that became empty is left in the index
UnregisterKeepBucket(list, map, id, plat) ==
    LET HasId(kb) == kb.id = id
        index     == FindIndex(list, HasId)
    IN  IF index = 0 THEN [list |-> list, map |-> map]
        ELSE
            LET keySequence == GetKeySequence(list[index], plat)
                newList     == RemoveAt(list, index)
            IN  IF keySequence = <<>> \/ keySequence[1] \notin DOMAIN map
                THEN [list |-> newList, map |-> map]
                ELSE
                    LET existing == map[keySequence[1]]
                        mapIndex == FindIndex(existing, HasId)
                        bucket   == IF mapIndex = 0 THEN existing
                                    ELSE RemoveAt(existing, mapIndex)
                    IN  [list |-> newList,
                         map  |-> MapSet(map, keySequence[1], bucket)]

\* unregister: the new value of [list, map]
Unregister(list, map, id, plat) ==
    LET HasId(kb) == kb.id = id
        index     == FindIndex(list, HasId)
    IN  IF index = 0 THEN [list |-> list, map |-> map]
        ELSE
            LET keySequence == GetKeySequence(list[index], plat)
                newList     == RemoveAt(list, index)
            IN  IF keySequence = <<>> \/ keySequence[1] \notin DOMAIN map
                THEN [list |-> newList, map |-> map]
                ELSE
                    LET existing == map[keySequence[1]]
                        mapIndex == FindIndex(existing, HasId)
                        bucket   == IF mapIndex = 0 THEN existing
                                    ELSE RemoveAt(existing, mapIndex)
                    IN  [list |-> newList,
                         map  |-> IF bucket = <<>>
                                  THEN MapDelete(map, keySequence[1])
                                  ELSE MapSet(map, keySequence[1], bucket)]

Found(commandId) == [type |-> "Found", commandId |-> commandId]

MoreChordsNeeded == [type |-> "MoreChordsNeeded", commandId |-> ""]

NoMatch == [type |-> "NoMatch", commandId |-> ""]

\* faulty variant: only the leading chord is compared
ChordsMatchLeadingOnly(chords, kbChords) ==
    /\ Len(chords) <= Len(kbChords)
    /\ kbChords[1] = chords[1]

\* kbChords.slice(0, chords.length).every((c, i) => c === chords[i])
ChordsMatch(chords, kbChords) ==
    /\ Len(chords) <= Len(kbChords)
    /\ \A i \in 1..Len(chords) : kbChords[i] = chords[i]

\* faulty variant: the when-clause is not consulted
WhenMatchesAlways(kb, context) == TRUE

\* if (!expr) return true; return expr.evaluate(context)
ExprMatches(expr, context) ==
    IF ~expr.ok THEN TRUE ELSE Evaluate(expr.node, context)

\* the when-clause filter of resolve
WhenMatches(kb, context) ==
    IF kb.when = <<>> THEN TRUE
    ELSE ExprMatches(Parse(kb.when), context)

\* faulty variant: the latest registered survivor wins
LastOf(contextMatched) == contextMatched[Len(contextMatched)]

\* contextMatched[0] of resolve
FirstOf(contextMatched) == contextMatched[1]

\* faulty variant: a survivor whose sequence is exactly the chords wins over
\* an earlier, longer one
ResolveMatchedExact(chords, contextMatched, plat) ==
    LET Exact(kb) == GetKeySequence(kb, plat) = chords
    IN  IF contextMatched = <<>> THEN NoMatch
        ELSE IF SelectSeq(contextMatched, Exact) # <<>>
             THEN Found(SelectSeq(contextMatched, Exact)[1].commandId)
             ELSE MoreChordsNeeded

\* resolve from the context filter's result on
ResolveMatched(chords, contextMatched, plat) ==
    IF contextMatched = <<>> THEN NoMatch
    ELSE
        LET binding == FirstOf(contextMatched)
            bindingChords == GetKeySequence(binding, plat)
        IN  IF bindingChords = <<>> THEN NoMatch
            ELSE IF Len(chords) < Len(bindingChords)
                 THEN MoreChordsNeeded
                 ELSE Found(binding.commandId)

Resolve(chords, context, map, plat) ==
    IF chords = <<>> THEN NoMatch
    ELSE
        LET candidates == MapGet(map, chords[1])
            ChordTest(kb) ==
                /\ GetKeySequence(kb, plat) # <<>>
                /\ ChordsMatch(chords, GetKeySequence(kb, plat))
            chordMatched == SelectSeq(candidates, ChordTest)
            ContextTest(kb) == WhenMatches(kb, context)
        IN  IF chordMatched = <<>> THEN NoMatch
            ELSE ResolveMatched(chords, SelectSeq(chordMatched, ContextTest),
                                plat)

-----------------------------------------------------------------------------
(* Inputs of the model *)

NoKeys == <<>>

\* chords as written in registered key-sequence strings
RawA == <<"Shift", "Alt", "Ctrl", "K">>

RawB == <<"B">>

RawC == <<"C">>

KX == <<"x">>

WhenX == <<"x">>

WhenNotX == <<"!", "x">>

\* "a &&": a dangling operator
WhenInvalid == <<"a", " ", "&", "&">>

Binding(id, commandId, key, mac, when) ==
    [id |-> id, commandId |-> commandId, key |-> key, mac |-> mac,
     win |-> NoKeys, linux |-> NoKeys, when |-> when]

\* the entries handed to registerKeybinding
KeybindingCatalogue ==
    { Binding("k1", "c1", <<RawA>>, NoKeys, <<>>),
      Binding("k2", "c2", <<RawA, RawB>>, NoKeys, <<>>),
      Binding("k1", "c1", <<RawA>>, NoKeys, WhenX),
      Binding("k2", "c2", <<RawA>>, NoKeys, WhenNotX),
      Binding("k3", "c2", <<RawB>>, <<RawC>>, WhenInvalid),
      Binding("k3", "c1", NoKeys, NoKeys, <<>>) }

\* the entries registered while the dispatcher is exercised
DispatchCatalogue ==
    { Binding("k1", "c1", <<RawA>>, NoKeys, <<>>),
      Binding("k2", "c2", <<RawA, RawB>>, NoKeys, <<>>),
      Binding("k3", "c1", <<RawB>>, <<RawC>>, <<>>) }

\* the entries registered while the expiry timer is followed: a sequence of
\* three chords, a sequence that shares its first chord and a single chord
TimerCatalogue ==
    { Binding("k1", "c1", <<RawB, RawC, RawB>>, NoKeys, <<>>),
      Binding("k2", "c2", <<RawB, RawB>>, NoKeys, <<>>),
      Binding("k3", "c1", <<RawC>>, NoKeys, <<>>) }

\* the entries registered while the context changes between chords
WhenCatalogue ==
    { Binding("k1", "c1", <<RawB, RawC>>, NoKeys, WhenX),
      Binding("k2", "c2", <<RawC>>, NoKeys, <<>>) }

KeybindingIds == {"k1", "k2", "k3"}

CommandIds == {"c1", "c2"}

\* the commands handed to commandRegistry.register: c1 carries the predicate
\* when: (ctx) => !!ctx.activeGroup, c2 carries none
CommandCatalogue ==
    [c \in CommandIds |-> [id |-> c, hasWhen |-> (c = "c1")]]

ChordModeListeners == {"l1"}

\* element: the element of the UI hierarchy the target is, "none" for a
\* target that no region with a scope encloses
Target(isElement, tagName, editable) ==
    [isHTMLElement |-> isElement, tagName |-> tagName,
     isContentEditable |-> editable, element |-> "none"]

\* the element of the UI hierarchy as an event target
TargetIn(element) ==
    [Target(TRUE, "DIV", FALSE) EXCEPT !.element = element]

KeyEvent(code, key, mods, target) ==
    [code |-> code, key |-> key, ctrlKey |-> "Ctrl" \in mods,
     altKey |-> "Alt" \in mods, shiftKey |-> "Shift" \in mods,
     metaKey |-> "Meta" \in mods, target |-> target]

\* the KeyboardEvents delivered to handleKeyDown
KeyEvents ==
    { KeyEvent("KeyK", "K", {"Ctrl", "Alt", "Shift"}, Target(TRUE, "DIV", FALSE)),
      KeyEvent("KeyB", "b", {}, Target(TRUE, "DIV", FALSE)),
      KeyEvent("KeyC", "c", {}, Target(TRUE, "DIV", FALSE)),
      KeyEvent("KeyB", "b", {}, Target(TRUE, "INPUT", FALSE)),
      KeyEvent("KeyC", "c", {}, Target(TRUE, "DIV", TRUE)),
      KeyEvent("ShiftLeft", "Shift", {"Shift"}, Target(TRUE, "DIV", FALSE)) }

\* what a command handler does when it is invoked: return, throw, return a
\* rejected promise, or unregister the keybinding with the given id
HandlerEffects ==
    { [kind |-> "return", id |-> ""], [kind |-> "throw", id |-> ""],
      [kind |-> "reject", id |-> ""] }
    \cup { [kind |-> "unregister", id |-> i] : i \in KeybindingIds }

ContextValues == {Bool(TRUE), Bool(FALSE)}

-----------------------------------------------------------------------------
(* Chord codec: KeybindingService.eventToChord / normalizeKey *)

SpecialKeys ==
    [c \in {"ArrowLeft", "ArrowRight", "ArrowUp", "ArrowDown", "Escape",
            "Enter", "Space", "Tab", "Backspace", "Delete", "Home", "End",
            "PageUp", "PageDown", "Insert"} |->
        CASE c = "ArrowLeft" -> "Left" [] c = "ArrowRight" -> "Right"
          [] c = "ArrowUp" -> "Up" [] c = "ArrowDown" -> "Down"
          [] OTHER -> c]

FunctionKeyCodes ==
    {"F1", "F2", "F3", "F4", "F5", "F6", "F7", "F8", "F9", "F10", "F11", "F12"}

\* code.startsWith('Key') and code.substring(3), for the letter codes in use
LetterCodes == [c \in {"KeyB", "KeyC", "KeyK"} |->
                   CASE c = "KeyB" -> "B" [] c = "KeyC" -> "C" [] c = "KeyK" -> "K"]

\* code.startsWith('Digit') and code.substring(5)
DigitCodes == [c \in {"Digit1", "Digit2"} |->
                  CASE c = "Digit1" -> "1" [] c = "Digit2" -> "2"]

NumpadCodes == {"Numpad1", "NumpadAdd"}

\* the one-character values of event.key, with key.toUpperCase()
UpperCase == [c \in {"b", "c", "k", "/", "\\"} |->
                 CASE c = "b" -> "B" [] c = "c" -> "C" [] c = "k" -> "K"
                   [] OTHER -> c]

\* "" stands for null
NormalizeKey(code, key) ==
    IF code \in DOMAIN SpecialKeys THEN SpecialKeys[code]
    ELSE IF code \in FunctionKeyCodes THEN code
    ELSE IF code \in DOMAIN LetterCodes THEN LetterCodes[code]
    ELSE IF code \in DOMAIN DigitCodes THEN DigitCodes[code]
    ELSE IF code \in NumpadCodes THEN code
    ELSE IF key \in DOMAIN UpperCase THEN UpperCase[key]
    ELSE key

\* <<>> stands for null
EventToChord(event, plat) ==
    LET Held(m) ==
            CASE m = "Ctrl"  -> event.ctrlKey
              [] m = "Alt"   -> event.altKey
              [] m = "Shift" -> event.shiftKey
              [] OTHER       -> event.metaKey
        key == NormalizeKey(event.code, event.key)
    IN  IF key = "" THEN <<>>
        ELSE SelectSeq(ModifierOrder(plat), Held) \o <<key>>

IsModifierOnlyKey(event) ==
    event.code \in {"MetaLeft", "MetaRight", "ControlLeft", "ControlRight",
                    "AltLeft", "AltRight", "ShiftLeft", "ShiftRight"}

\* faulty variant: contentEditable targets are not recognised
IsInputElementByTag(target) ==
    /\ target.isHTMLElement
    /\ target.tagName \in {"INPUT", "TEXTAREA"}

IsInputElement(target) ==
    /\ target.isHTMLElement
    /\ \/ target.tagName \in {"INPUT", "TEXTAREA"}
       \/ target.isContentEditable

-----------------------------------------------------------------------------
(* Command registry: CommandRegistry.canExecute / execute *)

\* command.when(context), for a command that has a predicate
CommandWhen(command, context) == context.activeGroup

CanExecute(commandId, cmds, context) ==
    IF commandId \notin DOMAIN cmds THEN FALSE
    ELSE IF ~cmds[commandId].hasWhen THEN TRUE
    ELSE CommandWhen(cmds[commandId], context)

\* faulty variant: execute is not async, so a throwing handler throws at the caller
ExecuteSync(commandId, cmds, context, effect) ==
    LET invoked == /\ commandId \in DOMAIN cmds
                   /\ (cmds[commandId].hasWhen =>
                          CommandWhen(cmds[commandId], context))
    IN  [invoked  |-> invoked,
         rejected |-> invoked /\ effect.kind = "reject",
         thrown   |-> invoked /\ effect.kind = "throw"]

(* execute is an async function: its body runs synchronously up to the     *)
(* await of the handler's result, and whatever is thrown inside it rejects *)
(* the returned promise instead of being thrown at the caller.             *)
(* invoked: the handler was called; rejected: the promise is rejected;     *)
(* thrown: the call itself threw.                                          *)
Execute(commandId, cmds, context, effect) ==
    LET invoked == /\ commandId \in DOMAIN cmds
                   /\ (cmds[commandId].hasWhen =>
                          CommandWhen(cmds[commandId], context))
    IN  [invoked  |-> invoked,
         rejected |-> invoked /\ effect.kind \in {"throw", "reject"},
         thrown   |-> FALSE]

-----------------------------------------------------------------------------
(* Editor area: editorAreaReducer and its tree utilities. Group and tab   *)
(* ids are UUIDs in the code and naturals here, the least one that no      *)
(* group, or no tab, has at the moment; the reducer never compares the id  *)
(* of a tab with the id of a group. Indices into tabs are 0-based as in    *)
(* the code, so tab index i is tabs[i + 1]; paths into the layout tree     *)
(* hold 1-based child positions.                                           *)

\* the groups that exist at a time
MaxGroups == 2

\* the tabs that exist at a time
MaxTabs == 3

\* the tabs that exist at a time while groups are split and closed
MaxOpen == 2

\* the ids generateGroupId returns for groups
GroupIds == 1..MaxGroups

\* the ids generateGroupId returns for tabs
TabIds == 1..MaxTabs

\* an id that no group has
UnknownGroup == 0

\* the group ids the dispatched actions carry
GroupInputs == GroupIds \cup {UnknownGroup}

Uris == {"a", "b", "c"}

\* toIndex of a MOVE_TAB action that does not give one
NoIndex == -2

TabIndices == -1..MaxTabs

ToIndices == {NoIndex} \cup TabIndices

NullTree == [type |-> "null"]

\* what a tree utility that throws yields
ThrownTree == [type |-> "throw"]

\* findLeafPath returned null
NoPath == <<0>>

Leaf(groupId) == [type |-> "leaf", groupId |-> groupId]

\* sizes are kept as weights: the share of child i is sizes[i] over the sum
SplitNode(direction, children) ==
    [type |-> "split", direction |-> direction, sizes |-> <<1, 1>>,
     children |-> children]

RECURSIVE FindLeafPath(_, _, _)
RECURSIVE FindInChildren(_, _, _, _)
RECURSIVE FirstFound(_, _, _, _, _)

\* the body of the for loop of findLeafPath once children[i] was searched
FirstFound(result, children, i, groupId, path) ==
    IF result # NoPath THEN result
    ELSE FindInChildren(children, i + 1, groupId, path)

\* the for loop of findLeafPath from child i on
FindInChildren(children, i, groupId, path) ==
    IF i > Len(children) THEN NoPath
    ELSE FirstFound(FindLeafPath(children[i], groupId, Append(path, i)),
                    children, i, groupId, path)

FindLeafPath(tree, groupId, path) ==
    IF tree.type = "leaf"
    THEN IF tree.groupId = groupId THEN path ELSE NoPath
    ELSE FindInChildren(tree.children, 1, groupId, path)

RECURSIVE ReplaceNodeAtPath(_, _, _)
ReplaceNodeAtPath(tree, path, newNode) ==
    IF path = <<>> THEN newNode
    ELSE IF tree.type = "leaf" THEN ThrownTree
    ELSE [tree EXCEPT !.children[Head(path)] =
                          ReplaceNodeAtPath(@, Tail(path), newNode)]

\* removeNodeAtPath for a path of length 1, newChildren being the others
RemoveChild(tree, index, newChildren) ==
    IF Len(newChildren) = 0 THEN NullTree
    ELSE IF Len(newChildren) = 1 THEN newChildren[1]
    ELSE [tree EXCEPT !.children = newChildren,
                      !.sizes = RemoveAt(tree.sizes, index)]

RECURSIVE RemoveNodeAtPath(_, _)
RECURSIVE RemoveFromChild(_, _, _)

\* the end of removeNodeAtPath: updatedChild is what the recursion returned
RemoveFromChild(tree, index, updatedChild) ==
    IF updatedChild = NullTree THEN RemoveNodeAtPath(tree, <<index>>)
    ELSE [tree EXCEPT !.children[index] = updatedChild]

RemoveNodeAtPath(tree, path) ==
    IF Len(path) = 0 THEN NullTree
    ELSE IF tree.type = "leaf" THEN ThrownTree
    ELSE IF Len(path) = 1
    THEN RemoveChild(tree, path[1], RemoveAt(tree.children, path[1]))
    ELSE RemoveFromChild(tree, Head(path),
                         RemoveNodeAtPath(tree.children[Head(path)],
                                          Tail(path)))

\* the end of simplifyTree
Simplified(tree, simplifiedChildren) ==
    IF Len(simplifiedChildren) = 1 THEN simplifiedChildren[1]
    ELSE [tree EXCEPT !.children = simplifiedChildren]

RECURSIVE SimplifyTree(_)
SimplifyTree(tree) ==
    IF tree.type = "leaf" THEN tree
    ELSE Simplified(tree, [i \in 1..Len(tree.children) |->
                              SimplifyTree(tree.children[i])])

\* the place of the group groupId in Object.keys(groups), 0 if it has none
GroupAt(groups, groupId) ==
    IF \E g \in 1..Len(groups) : groups[g].id = groupId
    THEN CHOOSE g \in 1..Len(groups) : groups[g].id = groupId
    ELSE 0

\* the ids of the groups
UsedGroupIds(state) == {state.groups[g].id : g \in 1..Len(state.groups)}

\* the ids of the tabs of all groups
UsedTabIds(state) ==
    UNION {{state.groups[g].tabs[t].id :
               t \in 1..Len(state.groups[g].tabs)} :
           g \in 1..Len(state.groups)}

\* the least id of pool that is not used
LeastUnused(pool, used) ==
    CHOOSE id \in pool \ used : \A other \in pool \ used : id <= other

\* generateGroupId() for a new group
GenerateGroupId(state) == LeastUnused(GroupIds, UsedGroupIds(state))

\* generateGroupId() for a new tab
GenerateTabId(state) == LeastUnused(TabIds, UsedTabIds(state))

EmptyGroup(groupId) == [id |-> groupId, tabs |-> <<>>, activeIndex |-> -1]

CreateInitialEditorState ==
    [layout |-> Leaf(1), groups |-> <<EmptyGroup(1)>>, activeGroupId |-> 1]

\* tabs.findIndex((t) => t.uri === uri), 0-based, -1 if there is none
FindUri(tabs, uri) ==
    IF \E t \in 1..Len(tabs) : tabs[t].uri = uri
    THEN (CHOOSE t \in 1..Len(tabs) :
              /\ tabs[t].uri = uri
              /\ \A u \in 1..(t - 1) : tabs[u].uri # uri) - 1
    ELSE -1

\* case 'ADD_TAB' for a group at place g that does not hold the uri
AppendTab(state, g, uri) ==
    [state EXCEPT
        !.groups[g].tabs = Append(@, [uri |-> uri,
                                      id |-> GenerateTabId(state)]),
        !.groups[g].activeIndex = IF @ = -1 THEN 0 ELSE @]

ReduceAddTab(state, groupId, uri) ==
    IF GroupAt(state.groups, groupId) = 0 THEN state
    ELSE IF FindUri(state.groups[GroupAt(state.groups, groupId)].tabs,
                    uri) >= 0
    THEN [state EXCEPT
             !.groups[GroupAt(state.groups, groupId)].activeIndex =
                 FindUri(state.groups[GroupAt(state.groups, groupId)].tabs,
                         uri)]
    ELSE AppendTab(state, GroupAt(state.groups, groupId), uri)

ReduceSetActiveTab(state, groupId, tabIndex) ==
    IF GroupAt(state.groups, groupId) = 0 THEN state
    ELSE IF tabIndex < 0
            \/ tabIndex >=
                   Len(state.groups[GroupAt(state.groups, groupId)].tabs)
    THEN state
    ELSE [state EXCEPT
             !.groups[GroupAt(state.groups, groupId)].activeIndex = tabIndex]

ReduceSetActiveGroup(state, groupId) ==
    IF GroupAt(state.groups, groupId) = 0 THEN state
    ELSE [state EXCEPT !.activeGroupId = groupId]

\* faulty variant: the group that was closed stays the active one
CloseGroupResultKeepActive(state, groupId, newLayout, newGroups) ==
    [layout        |-> newLayout,
     groups        |-> newGroups,
     activeGroupId |-> state.activeGroupId]

\* the end of case 'CLOSE_GROUP': Object.keys(newGroups)[0] is the first
\* remaining group, 0 standing for undefined
CloseGroupResult(state, groupId, newLayout, newGroups) ==
    [layout        |-> newLayout,
     groups        |-> newGroups,
     activeGroupId |-> IF state.activeGroupId # groupId
                       THEN state.activeGroupId
                       ELSE IF newGroups = <<>> THEN 0 ELSE newGroups[1].id]

\* faulty variant: the group is deleted but its leaf stays in the layout
CloseGroupLayoutKeepLeaf(state, groupId, newLayout) ==
    CloseGroupResult(state, groupId, state.layout,
                     SelectSeq(state.groups,
                               LAMBDA group : group.id # groupId))

\* case 'CLOSE_GROUP' once the leaf was removed from the layout
CloseGroupLayout(state, groupId, newLayout) ==
    IF newLayout = NullTree THEN state
    ELSE CloseGroupResult(state, groupId, SimplifyTree(newLayout),
                          SelectSeq(state.groups,
                                    LAMBDA group : group.id # groupId))

\* case 'CLOSE_GROUP' once the path of the leaf was looked up
CloseGroupAt(state, groupId, path) ==
    IF path = NoPath THEN state
    ELSE CloseGroupLayout(state, groupId,
                          RemoveNodeAtPath(state.layout, path))

ReduceCloseGroup(state, groupId) ==
    IF Len(state.groups) = 1 THEN state
    ELSE CloseGroupAt(state, groupId,
                      FindLeafPath(state.layout, groupId, <<>>))

\* the activeIndex of a group that loses the tab at tabIndex
IndexAfterRemoval(activeIndex, tabIndex, newLength) ==
    IF tabIndex < activeIndex THEN activeIndex - 1
    ELSE IF tabIndex = activeIndex /\ activeIndex >= newLength
    THEN newLength - 1
    ELSE activeIndex

\* case 'CLOSE_TAB' for a valid tabIndex of the group at place g
CloseTabAt(state, groupId, g, tabIndex) ==
    IF Len(state.groups[g].tabs) = 1
    THEN IF Len(state.groups) = 1
         THEN [state EXCEPT !.groups[g].tabs = <<>>,
                            !.groups[g].activeIndex = -1]
         ELSE ReduceCloseGroup(state, groupId)
    ELSE [state EXCEPT
             !.groups[g].tabs = RemoveAt(@, tabIndex + 1),
             !.groups[g].activeIndex =
                 IndexAfterRemoval(@, tabIndex,
                                   Len(state.groups[g].tabs) - 1)]

ReduceCloseTab(state, groupId, tabIndex) ==
    IF GroupAt(state.groups, groupId) = 0 THEN state
    ELSE IF tabIndex < 0
            \/ tabIndex >=
                   Len(state.groups[GroupAt(state.groups, groupId)].tabs)
    THEN state
    ELSE CloseTabAt(state, groupId, GroupAt(state.groups, groupId),
                    tabIndex)

\* case 'SPLIT_GROUP' once the path of the leaf was looked up
SplitGroupAt(state, groupId, direction, path) ==
    IF path = NoPath THEN state
    ELSE [state EXCEPT
             !.layout = ReplaceNodeAtPath(@, path,
                            SplitNode(direction,
                                      <<Leaf(groupId),
                                        Leaf(GenerateGroupId(state))>>)),
             !.groups = Append(@, EmptyGroup(GenerateGroupId(state)))]

ReduceSplitGroup(state, groupId, direction) ==
    SplitGroupAt(state, groupId, direction,
                 FindLeafPath(state.layout, groupId, <<>>))

\* the start Array.prototype.splice uses for the argument start
SpliceStart(start, length) ==
    IF start < 0 THEN (IF length + start < 0 THEN 0 ELSE length + start)
    ELSE IF start > length THEN length
    ELSE start

\* tabs.splice(start, 0, tab)
SpliceIn(tabs, start, tab) ==
    SubSeq(tabs, 1, SpliceStart(start, Len(tabs))) \o <<tab>>
        \o SubSeq(tabs, SpliceStart(start, Len(tabs)) + 1, Len(tabs))

\* toIndex !== undefined ? toIndex : length
TargetIndex(toIndex, length) == IF toIndex # NoIndex THEN toIndex ELSE length

\* case 'MOVE_TAB' within the group at place g
Reorder(state, g, tabIndex, toIndex) ==
    [state EXCEPT
        !.groups[g].tabs =
            SpliceIn(RemoveAt(@, tabIndex + 1),
                     TargetIndex(toIndex, Len(@) - 1),
                     @[tabIndex + 1])]

\* case 'MOVE_TAB' from the group at place f to the one at place t
MoveBetween(state, f, t, tabIndex, toIndex) ==
    [state EXCEPT
        !.groups[f].tabs = RemoveAt(@, tabIndex + 1),
        !.groups[f].activeIndex =
            IndexAfterRemoval(@, tabIndex, Len(state.groups[f].tabs) - 1),
        !.groups[t].tabs =
            SpliceIn(@, TargetIndex(toIndex, Len(@)),
                     state.groups[f].tabs[tabIndex + 1]),
        !.groups[t].activeIndex =
            IF Len(state.groups[t].tabs) = 0 THEN 0 ELSE @]

\* case 'MOVE_TAB' for groups that exist, at the places f and t
MoveTabAt(state, f, t, tabIndex, toIndex) ==
    IF tabIndex < 0 \/ tabIndex >= Len(state.groups[f].tabs) THEN state
    ELSE IF f = t THEN Reorder(state, f, tabIndex, toIndex)
    ELSE MoveBetween(state, f, t, tabIndex, toIndex)

ReduceMoveTab(state, fromGroupId, toGroupId, tabIndex, toIndex) ==
    IF GroupAt(state.groups, fromGroupId) = 0
       \/ GroupAt(state.groups, toGroupId) = 0
    THEN state
    ELSE MoveTabAt(state, GroupAt(state.groups, fromGroupId),
                   GroupAt(state.groups, toGroupId), tabIndex, toIndex)

-----------------------------------------------------------------------------
(* State *)

\* this.chordTimeout is null
NoTimer == 0

\* the handles setTimeout can return
MaxTimers == 3

VARIABLES
    platform,            \* getPlatform(), read once by the constructors
    keybindings,         \* KeybindingResolver.keybindings
    keybindingMap,       \* KeybindingResolver.keybindingMap
    currentChords,       \* KeybindingService.currentChords
    chordTimeout,        \* KeybindingService.chordTimeout: the handle of
                         \* the expiry timer, NoTimer for null
    timers,              \* the timers of setTimeout that are pending
    chordModeListeners,  \* KeybindingService.chordModeListeners
    rootValues,          \* ContextKeyService.rootContext.values
    scopes,              \* the Context objects createScoped made, by id
    contexts,            \* ContextKeyService.contexts: the ids it holds
    keybindingContext,   \* element.dataset.keybindingContext, 0 if absent
    parentElement,       \* element.parentElement, "none" for null
    listeners,           \* ContextKeyService.listeners, in insertion order
    editorState,         \* the EditorAreaState the reducer was last given
    keyHandles,          \* the ContextKey handles createKey returned
    disposables,         \* the entries whose Disposable, returned by
                         \* registerKeybinding, a caller holds
    commands,            \* CommandRegistry.commands
    commandContext,      \* CommandContextProvider.currentContext
    parsed,              \* the expression a caller of
                         \* ContextKeyExpression.parse keeps, with the
                         \* lastIndex of its RegExp objects
    outcome,             \* history: the latest resolution outcome of the
                         \* dispatcher, "expired" / "disposed" after the
                         \* timer fired / dispose was called
    last                 \* history: what the latest operation did

\* the state of ContextKeyService besides the root's values, the DOM, and
\* the objects the callers hold
scopeVars ==
    <<scopes, contexts, keybindingContext, parentElement, listeners,
      keyHandles, disposables>>

vars ==
    <<platform, keybindings, keybindingMap, currentChords, chordTimeout, timers,
      chordModeListeners, rootValues, scopeVars, editorState, commands,
      commandContext, parsed, outcome, last>>

Elements == {"e1", "e2", "e3"}

\* no expression has been parsed, or parse returned null
NothingParsed == [ok |-> FALSE, node |-> <<>>, lastIndex |-> <<>>]

\* keydowns of B and of C inside the regions e1 and e2
WhenEvents ==
    { KeyEvent("KeyB", "b", {}, TargetIn("e1")),
      KeyEvent("KeyC", "c", {}, TargetIn("e1")),
      KeyEvent("KeyB", "b", {}, TargetIn("e2")),
      KeyEvent("KeyC", "c", {}, TargetIn("e2")) }

\* the event slot of the record of an operation that is not a keydown
NoEvent == KeyEvent("", "", {}, Target(FALSE, "", FALSE))

\* no command handler ran
Unobserved == [seen |-> FALSE, chords |-> <<>>, timeout |-> FALSE]

\* the record of an operation that is neither a keydown nor a resolve call
Other(op) ==
    [op |-> op, event |-> NoEvent, id |-> "", removed |-> <<>>,
     when |-> <<>>, value |-> FALSE,
     assigned |-> FALSE, scope |-> 0, key |-> <<>>, newValue |-> Undef,
     delivered |-> <<>>, created |-> 0, element |-> "none",
     observed |-> Unobserved, disposed |-> <<>>,
     from |-> "none",
     chord |-> <<>>, before |-> <<>>,
     chords |-> <<>>,
     result |-> NoMatch, consumed |-> FALSE, canExecute |-> FALSE,
     invoked |-> FALSE, effect |-> [kind |-> "return", id |-> ""],
     logged |-> FALSE, threw |-> FALSE, fired |-> <<>>]

Init ==
    /\ platform \in Platforms
    /\ keybindings = <<>>
    /\ keybindingMap = <<>>
    /\ currentChords = <<>>
    /\ chordTimeout = NoTimer
    /\ timers = {}
    /\ chordModeListeners = {}
    /\ rootValues = <<>>
    /\ scopes = <<>>
    /\ contexts = {}
    /\ keybindingContext = [e \in Elements |-> 0]
    /\ parentElement = [e \in Elements |->
                            CASE e = "e1" -> "none"
                              [] e = "e2" -> "e1"
                              [] e = "e3" -> "e2"]
    /\ listeners = <<>>
    /\ keyHandles = {}
    /\ disposables = {}
    /\ editorState = CreateInitialEditorState
    /\ commands = <<>>
    /\ commandContext = [activeGroup |-> FALSE]
    /\ parsed = NothingParsed
    /\ outcome = "none"
    /\ last = Other("init")

-----------------------------------------------------------------------------
(* Context key service: ContextKeyService, ScopedContextKeyService and     *)
(* ContextKey.  A Context object is [parent, values]; parent is the id of  *)
(* the object it refers to, NoParent for null; the root has id 0.  The     *)
(* field element is history: the element createScoped was called with.     *)

MaxScopes == 3

NoParent == -1

\* this.rootContext
RootContext == [parent |-> NoParent, values |-> rootValues, element |-> "none"]

\* the Context object that has the id
ContextObject(id) == IF id = 0 THEN RootContext ELSE scopes[id]

\* contextId ? this.contexts.get(contextId) : this.rootContext is an object
HasContext(contextId) == contextId = 0 \/ contextId \in contexts

\* values[key] = value
Put(values, key, value) ==
    [k \in DOMAIN values \cup {key} |-> IF k = key THEN value ELSE values[k]]

\* getValue(key, contextId)
RECURSIVE GetValue(_, _)
GetValue(key, contextId) ==
    IF ~HasContext(contextId) THEN Undef
    ELSE IF key \in DOMAIN ContextObject(contextId).values
    THEN ContextObject(contextId).values[key]
    ELSE IF ContextObject(contextId).parent # NoParent
    THEN GetValue(key, ContextObject(contextId).parent)
    ELSE Undef

\* faulty variant: the values of an ancestor overwrite those of the scope
AddMissingOverwrite(result, values) ==
    [k \in DOMAIN result \cup DOMAIN values |->
        IF k \in DOMAIN values THEN values[k] ELSE result[k]]

\* the body of the for loop of getContext: keys already in result are kept
AddMissing(result, values) ==
    [k \in DOMAIN result \cup DOMAIN values |->
        IF k \in DOMAIN result THEN result[k] ELSE values[k]]

\* the while loop of getContext, which follows the parent references
RECURSIVE FlattenFrom(_, _)
FlattenFrom(current, result) ==
    IF current = NoParent THEN result
    ELSE FlattenFrom(ContextObject(current).parent,
                     AddMissing(result, ContextObject(current).values))

\* getContext(contextId)
GetContextOf(contextId) ==
    IF ~HasContext(contextId) THEN <<>> ELSE FlattenFrom(contextId, <<>>)

\* getContextForElement(element): 0 stands for undefined, which the callers
\* treat as they treat the root's id
RECURSIVE GetContextForElement(_)
GetContextForElement(element) ==
    IF element = "none" THEN 0
    ELSE IF keybindingContext[element] # 0 THEN keybindingContext[element]
    ELSE GetContextForElement(parentElement[element])

\* the listeners whose body throws
ThrowingListeners == {"l2"}

\* fireContextChange: the listeners that are called, in order, until one
\* throws
RECURSIVE Called(_)
Called(ls) ==
    IF ls = <<>> THEN <<>>
    ELSE IF Head(ls) \in ThrowingListeners THEN <<Head(ls)>>
    ELSE <<Head(ls)>> \o Called(Tail(ls))

\* fireContextChange ends with an exception
FireThrows(ls) == \E i \in 1..Len(ls) : ls[i] \in ThrowingListeners

\* the record of an assignment of value to key in the Context contextId
Assignment(op, contextId, key, value) ==
    [Other(op) EXCEPT !.assigned = TRUE, !.scope = contextId, !.key = key,
                      !.newValue = value,
                      !.delivered = Called(listeners),
                      !.threw = FireThrows(listeners)]

\* faulty variant: the value is stored in the Context object the scoped
\* service still holds, and the listeners are called
SetValueInContextUnchecked(op, contextId, key, value) ==
    /\ scopes' = [scopes EXCEPT ![contextId].values = Put(@, key, value)]
    /\ last' = Assignment(op, contextId, key, value)

\* setValueInContext(contextId, key, value), called by op
SetValueInContext(op, contextId, key, value) ==
    IF contextId \in contexts
    THEN /\ scopes' = [scopes EXCEPT
                           ![contextId].values = Put(@, key, value)]
         /\ last' = Assignment(op, contextId, key, value)
    ELSE /\ scopes' = scopes
         /\ last' = [Other(op) EXCEPT !.threw = TRUE, !.scope = contextId,
                                      !.key = key, !.newValue = value]

-----------------------------------------------------------------------------
(* Dispatcher: KeybindingService *)

\* contextKeyService.getContext(getContextForElement(target)) for a target
\* that no region with a scope encloses: the snapshot is the root's values
GetContext == rootValues

\* contextKeyService.getContext(getContextForElement(target))
ContextOfTarget(target) == GetContextOf(GetContextForElement(target.element))

\* this.chordTimeout !== null
TimerArmed == chordTimeout # NoTimer

\* setTimeout: a handle that no pending timer has and that differs from the
\* one the dispatcher holds
SetTimeout ==
    CHOOSE t \in 1..MaxTimers :
        /\ t \notin timers \cup {chordTimeout}
        /\ \A u \in 1..MaxTimers :
              u \notin timers \cup {chordTimeout} => t <= u

\* clearTimeout(handle): no effect when no pending timer has the handle
ClearTimeout(pending, handle) == pending \ {handle}

\* faulty variant: the chord that failed to extend the sequence is kept as
\* the first chord of a new one
ResetChordsKeepLast(chords) ==
    [chords  |-> IF Len(chords) > 1 THEN << chords[Len(chords)] >> ELSE <<>>,
     timeout |-> NoTimer,
     timers  |-> ClearTimeout(timers, chordTimeout),
     fired   |-> IF Len(chords) > 0
                 THEN << [active |-> FALSE, chords |-> <<>>] >> ELSE <<>>]

\* resetChords: the new [chords, timeout], the timers left pending and the
\* events fired
ResetChords(chords) ==
    [chords  |-> <<>>,
     timeout |-> NoTimer,
     timers  |-> ClearTimeout(timers, chordTimeout),
     fired   |-> IF Len(chords) > 0
                 THEN << [active |-> FALSE, chords |-> <<>>] >> ELSE <<>>]

\* faulty variant: the timer is not armed
EnterChordModeNoTimer(chords) ==
    [chords  |-> chords,
     timeout |-> NoTimer,
     timers  |-> ClearTimeout(timers, chordTimeout),
     fired   |-> << [active |-> TRUE, chords |-> chords] >>]

\* faulty variant: the timer of the previous chord is not cancelled
EnterChordModeNoCancel(chords) ==
    [chords  |-> chords,
     timeout |-> SetTimeout,
     timers  |-> timers \cup {SetTimeout},
     fired   |-> << [active |-> TRUE, chords |-> chords] >>]

\* enterChordMode: the new [chords, timeout], the timers left pending and the
\* events fired
EnterChordMode(chords) ==
    [chords  |-> chords,
     timeout |-> SetTimeout,
     timers  |-> ClearTimeout(timers, chordTimeout) \cup {SetTimeout},
     fired   |-> << [active |-> TRUE, chords |-> chords] >>]

\* faulty variant: resetChords is deferred until the promise of execute settles
DispatchFoundDeferred(commandId, chords, effect) ==
    LET ex == Execute(commandId, commands, commandContext, effect)
    IN  [consumed |-> TRUE,
         invoked  |-> ex.invoked,
         observed |-> [seen |-> TRUE, chords |-> chords,
                       timeout |-> TimerArmed],
         logged   |-> ex.rejected,
         threw    |-> ex.thrown,
         state    |-> [chords |-> chords, timeout |-> chordTimeout,
                       timers |-> timers, fired |-> <<>>]]

\* the Found branch of handleKeyDown: preventDefault/stopPropagation, then
\* execute(...).catch(log), then resetChords; execute calls the handler
\* before it returns its promise, so the handler observes the buffer and the
\* timer as they are before resetChords
DispatchFound(commandId, chords, effect) ==
    LET ex == Execute(commandId, commands, commandContext, effect)
    IN  [consumed |-> TRUE,
         invoked  |-> ex.invoked,
         observed |-> [seen |-> TRUE, chords |-> chords,
                       timeout |-> TimerArmed],
         logged   |-> ex.rejected,
         threw    |-> ex.thrown,
         state    |-> IF ex.thrown
                      THEN [chords |-> chords, timeout |-> chordTimeout,
                            timers |-> timers, fired |-> <<>>]
                      ELSE ResetChords(chords)]

ReturnEffect == [kind |-> "return", id |-> ""]

\* handleKeyDown from "Handle result" on: chords is the buffer after the push
HandleResult(event, chord, chords, result, effect) ==
    LET found  == DispatchFound(result.commandId, chords, effect)
        state  == CASE result.type = "Found" -> found.state
                    [] result.type = "MoreChordsNeeded" ->
                            EnterChordMode(chords)
                    [] OTHER -> ResetChords(chords)
        isFound == result.type = "Found"
        table  == IF isFound /\ found.invoked /\ effect.kind = "unregister"
                  THEN Unregister(keybindings, keybindingMap, effect.id,
                                  platform)
                  ELSE [list |-> keybindings, map |-> keybindingMap]
    IN  /\ (isFound /\ found.invoked) \/ effect = ReturnEffect
        /\ currentChords' = state.chords
        /\ chordTimeout' = state.timeout
        /\ timers' = state.timers
        /\ keybindings' = table.list
        /\ keybindingMap' = table.map
        /\ outcome' = result.type
        /\ last' = [op |-> "key", event |-> event, id |-> "",
                    when |-> <<>>, value |-> FALSE,
                    assigned |-> FALSE, scope |-> 0, key |-> <<>>,
                    newValue |-> Undef, delivered |-> <<>>, created |-> 0,
                    element |-> "none",
                    observed |-> IF isFound /\ found.invoked
                                 THEN found.observed ELSE Unobserved,
                    removed |-> <<>>, disposed |-> <<>>,
                    from |-> outcome,
                    chord |-> chord,
                    before |-> currentChords,
                    chords |-> chords, result |-> result,
                    consumed |-> IF isFound THEN found.consumed
                                 ELSE result.type = "MoreChordsNeeded",
                    canExecute |-> isFound /\ CanExecute(result.commandId,
                                               commands, commandContext),
                    invoked |-> isFound /\ found.invoked,
                    effect |-> effect,
                    logged |-> isFound /\ found.logged,
                    threw |-> isFound /\ found.threw,
                    fired |-> state.fired]
        /\ UNCHANGED <<platform, parsed, scopeVars, editorState, chordModeListeners, rootValues, commands,
                       commandContext>>

\* effect is what the command handler does if this keydown invokes it
HandleKeyDown(event, effect) ==
    IF \/ IsInputElement(event.target)
       \/ IsModifierOnlyKey(event)
       \/ EventToChord(event, platform) = <<>>
    THEN /\ effect = ReturnEffect
         /\ last' = [Other("ignored") EXCEPT !.event = event,
                                              !.before = currentChords]
         /\ UNCHANGED <<platform, parsed, scopeVars, editorState, keybindings, keybindingMap, currentChords,
                        chordTimeout, timers, chordModeListeners, rootValues, commands,
                        commandContext, outcome>>
    ELSE HandleResult(event, EventToChord(event, platform),
                      Append(currentChords, EventToChord(event, platform)),
                      Resolve(Append(currentChords,
                                     EventToChord(event, platform)),
                              ContextOfTarget(event.target), keybindingMap,
                              platform),
                      effect)

\* faulty variant: the callback forgets the timer but keeps the buffer
TimerFiresKeepsBuffer ==
    /\ \E t \in timers : timers' = timers \ {t}
    /\ chordTimeout' = NoTimer
    /\ last' = [Other("timer") EXCEPT !.before = currentChords]
    /\ outcome' = "expired"
    /\ UNCHANGED <<platform, parsed, scopeVars, editorState, keybindings, keybindingMap, currentChords,
                   chordModeListeners, rootValues, commands, commandContext>>

\* the callback armed by enterChordMode, after CHORD_TIMEOUT of inactivity
TimerFires ==
    /\ LET state == ResetChords(currentChords)
       IN  /\ \E t \in timers : timers' = state.timers \ {t}
           /\ currentChords' = state.chords
           /\ chordTimeout' = state.timeout
           /\ last' = [Other("timer") EXCEPT !.before = currentChords,
                                             !.fired = state.fired]
    /\ outcome' = "expired"
    /\ UNCHANGED <<platform, parsed, scopeVars, editorState, keybindings, keybindingMap, chordModeListeners,
                   rootValues, commands, commandContext>>

\* dispose
Dispose ==
    /\ LET state == ResetChords(currentChords)
       IN  /\ currentChords' = state.chords
           /\ chordTimeout' = state.timeout
           /\ timers' = state.timers
           /\ last' = [Other("dispose") EXCEPT !.before = currentChords,
                                               !.fired = state.fired]
    /\ chordModeListeners' = {}
    /\ outcome' = "disposed"
    /\ UNCHANGED <<platform, parsed, scopeVars, editorState, keybindings, keybindingMap, rootValues, commands,
                   commandContext>>

OnChordModeChanged(listener) ==
    /\ chordModeListeners' = chordModeListeners \cup {listener}
    /\ last' = Other("other")
    /\ UNCHANGED <<platform, parsed, scopeVars, editorState, keybindings, keybindingMap, currentChords,
                   chordTimeout, timers, rootValues, commands, commandContext, outcome>>

\* the unsubscribe function returned by onChordModeChanged
UnsubscribeChordMode(listener) ==
    /\ chordModeListeners' = chordModeListeners \ {listener}
    /\ last' = Other("other")
    /\ UNCHANGED <<platform, parsed, scopeVars, editorState, keybindings, keybindingMap, currentChords,
                   chordTimeout, timers, rootValues, commands, commandContext, outcome>>

RegisterKeybinding(kb) ==
    /\ Len(keybindings) < MaxBindings
    /\ LET table == Register(keybindings, keybindingMap, kb, platform)
       IN  /\ keybindings' = table.list
           /\ keybindingMap' = table.map
    /\ last' = Other("other")
    /\ UNCHANGED <<platform, parsed, scopeVars, editorState, currentChords, chordTimeout, timers, chordModeListeners,
                   rootValues, commands, commandContext, outcome>>

\* unregister(id), also the dispose of the Disposable of registerKeybinding
UnregisterKeybinding(id) ==
    /\ LET table == Unregister(keybindings, keybindingMap, id, platform)
       IN  /\ keybindings' = table.list
           /\ keybindingMap' = table.map
    /\ LET HasId(kb) == kb.id = id
           same      == SelectSeq(keybindings, HasId)
       IN  last' = [Other("unregister") EXCEPT
                        !.id = id,
                        !.removed = IF same = <<>> THEN <<>> ELSE <<same[1]>>]
    /\ UNCHANGED <<platform, parsed, scopeVars, editorState, currentChords, chordTimeout, timers, chordModeListeners,
                   rootValues, commands, commandContext, outcome>>

\* registerKeybinding(kb) by a caller that keeps the Disposable and registers
\* each entry once
RegisterAndKeep(kb) ==
    /\ kb \notin disposables
    /\ Len(keybindings) < MaxBindings
    /\ LET table == Register(keybindings, keybindingMap, kb, platform)
       IN  /\ keybindings' = table.list
           /\ keybindingMap' = table.map
    /\ disposables' = disposables \cup {kb}
    /\ last' = Other("other")
    /\ UNCHANGED <<platform, parsed, scopes, contexts, keybindingContext,
                   parentElement, listeners, keyHandles, editorState,
                   currentChords, chordTimeout, timers, chordModeListeners,
                   rootValues, commands, commandContext, outcome>>

\* dispose() of the Disposable that registerKeybinding(kb) returned
DisposeRegistration(kb) ==
    /\ kb \in disposables
    /\ LET table == Unregister(keybindings, keybindingMap, kb.id, platform)
       IN  /\ keybindings' = table.list
           /\ keybindingMap' = table.map
    /\ last' = [Other("disposable.dispose") EXCEPT
                    !.id = kb.id, !.disposed = << kb >>]
    /\ UNCHANGED <<platform, parsed, scopeVars, editorState, currentChords,
                   chordTimeout, timers, chordModeListeners, rootValues,
                   commands, commandContext, outcome>>

\* the chords that handleKeyDown pushes for the key events, by platform
EventChords ==
    [plat \in Platforms |->
        {EventToChord(e, plat) :
            e \in {k \in KeyEvents : ~IsModifierOnlyKey(k)}} \ {<<>>}]

ChordSequences ==
    UNION {[1..n -> UNION {EventChords[p] : p \in Platforms}] :
               n \in 0..MaxChords}

\* a direct call of resolver.resolve with the current context snapshot
ResolveCall(chords) ==
    /\ \A i \in 1..Len(chords) : chords[i] \in EventChords[platform]
    /\ last' = [Other("resolve") EXCEPT
                    !.chords = chords,
                    !.result = Resolve(chords, GetContext, keybindingMap,
                                       platform)]
    /\ UNCHANGED <<platform, parsed, scopeVars, editorState, keybindings, keybindingMap, currentChords,
                   chordTimeout, timers, chordModeListeners, rootValues, commands,
                   commandContext, outcome>>

\* contextKeyService.setValue(key, value)
SetValue(key, value) ==
    /\ rootValues' = Put(rootValues, key, value)
    /\ last' = Assignment("setValue", 0, key, value)
    /\ UNCHANGED <<platform, parsed, scopeVars, editorState, keybindings, keybindingMap, currentChords,
                   chordTimeout, timers, chordModeListeners, commands, commandContext,
                   outcome>>

\* commandRegistry.register(command)
RegisterCommand(c) ==
    /\ commands' = [k \in DOMAIN commands \cup {c} |->
                       IF k = c THEN CommandCatalogue[c] ELSE commands[k]]
    /\ last' = Other("other")
    /\ UNCHANGED <<platform, parsed, scopeVars, editorState, keybindings, keybindingMap, currentChords,
                   chordTimeout, timers, chordModeListeners, rootValues, commandContext,
                   outcome>>

\* commandRegistry.unregister(commandId)
UnregisterCommand(c) ==
    /\ commands' = [k \in DOMAIN commands \ {c} |-> commands[k]]
    /\ last' = Other("other")
    /\ UNCHANGED <<platform, parsed, scopeVars, editorState, keybindings, keybindingMap, currentChords,
                   chordTimeout, timers, chordModeListeners, rootValues, commandContext,
                   outcome>>

\* commandContextProvider.updateContext(context)
UpdateContext(context) ==
    /\ commandContext' = context
    /\ last' = Other("other")
    /\ UNCHANGED <<platform, parsed, scopeVars, editorState, keybindings, keybindingMap, currentChords,
                   chordTimeout, timers, chordModeListeners, rootValues, commands,
                   outcome>>

\* the dispatcher in its environment
Next ==
    \/ \E e \in KeyEvents, h \in HandlerEffects : HandleKeyDown(e, h)
    \/ TimerFires
    \/ Dispose
    \/ \E l \in ChordModeListeners : OnChordModeChanged(l)
    \/ \E l \in ChordModeListeners : UnsubscribeChordMode(l)
    \/ \E kb \in DispatchCatalogue : RegisterKeybinding(kb)
    \/ \E id \in KeybindingIds : UnregisterKeybinding(id)
    \/ \E c \in CommandIds : RegisterCommand(c)
    \/ \E c \in CommandIds : UnregisterCommand(c)
    \/ \E b \in BOOLEAN : UpdateContext([activeGroup |-> b])

Spec == Init /\ [][Next]_vars

\* the resolver called directly, as its unit tests call it
NextResolver ==
    \/ \E kb \in KeybindingCatalogue : RegisterKeybinding(kb)
    \/ \E id \in KeybindingIds : UnregisterKeybinding(id)
    \/ \E v \in ContextValues : SetValue(KX, v)
    \/ \E cs \in ChordSequences : ResolveCall(cs)

SpecResolver == Init /\ [][NextResolver]_vars

-----------------------------------------------------------------------------
(* Registration against key events: a key-sequence string is registered in *)
(* a fresh resolver and the keys it names are pressed                      *)

BaseKeys == {"K", "B"}

\* event.code of the key named in a key-sequence string
KeyCodes ==
    [k \in {"K", "B", "C"} |->
        CASE k = "K" -> "KeyK" [] k = "B" -> "KeyB" [] k = "C" -> "KeyC"]

\* the orders in which the modifiers of M can be written
Orderings(M) ==
    {q \in [1..Cardinality(M) -> M] :
        \A i, j \in 1..Cardinality(M) : q[i] = q[j] => i = j}

\* one chord of a key-sequence string: modifiers of the platform in any
\* order, then a base key
WrittenChords ==
    [plat \in Platforms |->
        {q \o <<k>> :
            q \in UNION {Orderings(M) : M \in SUBSET SeqToSet(CanonicalOrder(plat))},
            k \in BaseKeys}]

SecondChord == <<"Shift", "Ctrl", "C">>

\* key-sequence strings of one chord, and of two with SecondChord
WrittenSequences ==
    [plat \in Platforms |->
        {<<c>> : c \in WrittenChords[plat]}
            \cup {<<c, SecondChord>> : c \in WrittenChords[plat]}
            \cup {<<SecondChord, c>> : c \in WrittenChords[plat]}]

\* the KeyboardEvent of pressing the key of chord with its modifiers held
EventFor(chord) ==
    LET mods == SeqToSet(SubSeq(chord, 1, Len(chord) - 1))
    IN  [code     |-> KeyCodes[chord[Len(chord)]],
         key      |-> chord[Len(chord)],
         ctrlKey  |-> "Ctrl" \in mods,
         altKey   |-> "Alt" \in mods,
         shiftKey |-> "Shift" \in mods,
         metaKey  |-> "Cmd" \in mods \/ "Meta" \in mods,
         target   |-> Target(TRUE, "DIV", FALSE)]

\* the chords that pressing the keys of a key sequence produces
Pressed(keySequence, plat) ==
    [i \in 1..Len(keySequence) |-> EventToChord(EventFor(keySequence[i]), plat)]

\* register(entry) on a fresh resolver, then resolve of the chords pressed
RegisterAndPress(keySequence) ==
    /\ keySequence \in WrittenSequences[platform]
    /\ LET table == Register(<<>>, <<>>,
                             Binding("k1", "c1", keySequence, NoKeys, <<>>),
                             platform)
       IN  last' = [Other("normalize") EXCEPT
                        !.before = keySequence,
                        !.chords = GetKeySequence(table.list[1], platform),
                        !.result = Resolve(Pressed(keySequence, platform),
                                           <<>>, table.map, platform)]
    /\ UNCHANGED <<platform, parsed, scopeVars, editorState, keybindings, keybindingMap, currentChords,
                   chordTimeout, timers, chordModeListeners, rootValues, commands,
                   commandContext, outcome>>

NextCodec ==
    \E ks \in UNION {WrittenSequences[p] : p \in Platforms} :
        RegisterAndPress(ks)

SpecCodec == Init /\ [][NextCodec]_vars

-----------------------------------------------------------------------------
(* A caller of ContextKeyExpression: it parses a when clause, keeps the    *)
(* expression and evaluates it against the context of ContextKeyService    *)

\* when clauses that are expressions
WhenOrAnd == <<"a", " ", "|", "|", " ", "b", " ", "&", "&", " ", "c">>
WhenGrouped == <<"(", "a", " ", "|", "|", " ", "b", ")", " ", "&", "&", " ", "c">>
WhenAndOr == <<"a", " ", "&", "&", " ", "b", " ", "|", "|", " ", "c">>
WhenNotAnd == <<"!", "a", " ", "&", "&", " ", "b">>
WhenNotOr == <<"!", "a", " ", "|", "|", " ", "b">>
WhenNotGroup == <<"!", "(", "a", " ", "|", "|", " ", "b", ")">>
WhenGreater == <<"a", " ", ">", " ", "5">>
WhenGreaterEq == <<"a", " ", ">", "=", " ", "6">>
WhenSmaller == <<"a", " ", "<", " ", "6">>
WhenSmallerEq == <<"a", " ", "<", "=", " ", "5">>
WhenBare == <<"a">>
WhenNegated == <<"!", "a">>
WhenEquals == <<"a", " ", "=", "=", " ", "6">>
WhenNotEquals == <<"a", " ", "!", "=", " ", "6">>
WhenIn == <<"a", " ", "i", "n", " ", "[", "6", ",", " ", "'", "a", "'", "]">>
WhenRegex == <<"a", " ", "=", "~", " ", "/", "a", "/">>
WhenRegexQuoted == <<"a", " ", "=", "~", " ", "'", "a", "'">>
WhenRegexNoCase == <<"a", " ", "=", "~", " ", "/", "A", "/", "i">>
WhenRegexGlobal == <<"a", " ", "=", "~", " ", "/", "a", "/", "g">>
WhenRegexSticky == <<"a", " ", "=", "~", " ", "/", "a", "/", "y">>
WhenNotRegex == <<"!", "(", "a", " ", "=", "~", " ", "/", "a", "/", "g", ")">>
WhenAndRegex == <<"b", " ", "&", "&", " ", "a", " ", "=", "~", " ", "/", "a", "/", "g">>
WhenOrRegex == <<"b", " ", "|", "|", " ", "a", " ", "=", "~", " ", "/", "a", "/", "y">>

ValidInputs ==
    {WhenOrAnd, WhenGrouped, WhenAndOr, WhenNotAnd,
     WhenNotOr, WhenNotGroup, WhenGreater, WhenGreaterEq,
     WhenSmaller, WhenSmallerEq, WhenBare, WhenNegated,
     WhenEquals, WhenNotEquals, WhenIn, WhenRegex,
     WhenRegexQuoted, WhenRegexNoCase, WhenRegexGlobal, WhenRegexSticky,
     WhenNotRegex, WhenAndRegex, WhenOrRegex}

\* when clauses that are not: empty, blank, an unclosed parenthesis,
\* trailing characters, an unterminated string or regex literal, a regex
\* that does not compile, a dangling or a leading operator
WhenEmpty == <<>>
WhenBlank == <<" ">>
WhenUnclosed == <<"(", "a">>
WhenTrailing == <<"a", " ", "b">>
WhenOpenString == <<"a", " ", "=", "=", " ", "'", "x">>
WhenOpenRegex == <<"a", " ", "=", "~", " ", "/", "x">>
WhenBadRegex == <<"a", " ", "=", "~", " ", "/", "(", "/">>
WhenBadFlags == <<"a", " ", "=", "~", " ", "/", "a", "/", "g", "g">>
WhenNoValue == <<"a", " ", "=", "=">>
WhenLeading == <<"|", "|", " ", "a">>

InvalidInputs ==
    {WhenInvalid, WhenEmpty, WhenBlank, WhenUnclosed, WhenTrailing,
     WhenOpenString, WhenOpenRegex, WhenBadRegex, WhenBadFlags,
     WhenNoValue, WhenLeading}

WhenInputs == ValidInputs \cup InvalidInputs

\* ContextKeyExpression.parse of each input
ParsedInputs == [when \in WhenInputs |-> Parse(when)]

KA == <<"a">>

KB == <<"b">>

KC == <<"c">>

ExprKeys == {KA, KB, KC}

\* the values the context holds under key
ExprValues ==
    [key \in ExprKeys |->
        IF key = KA
        THEN {Undef, Bool(TRUE), Bool(FALSE), Num(0), Num(5), Num(6),
              Str(<<>>), Str(<<"6">>), Str(<<"a">>), Str(<<"b", "a">>)}
        ELSE {Bool(TRUE), Bool(FALSE)}]

\* the calls setValue(key, value) of the caller
ExprSettings ==
    UNION {{<<key, value>> : value \in ExprValues[key]} : key \in ExprKeys}

\* expr = ContextKeyExpression.parse(when)
ParseWhen(when) ==
    /\ parsed' = [ok        |-> ParsedInputs[when].ok,
                  node      |-> ParsedInputs[when].node,
                  lastIndex |-> <<>>]
    /\ last' = [Other("parse") EXCEPT !.when = when]
    /\ UNCHANGED <<platform, scopeVars, editorState, keybindings, keybindingMap,
                   currentChords, chordTimeout, timers, chordModeListeners, rootValues,
                   commands, commandContext, outcome>>

\* the state after expr.evaluate(context) returned r
Evaluated(r) ==
    /\ parsed' = [parsed EXCEPT !.lastIndex = r.lastIndex]
    /\ last' = [Other("evaluate") EXCEPT !.value = r.value]

\* expr.evaluate(contextKeyService.getContext())
EvaluateParsed ==
    /\ parsed.ok
    /\ Evaluated(EvaluateHeld(parsed.node, GetContext, parsed.lastIndex, <<>>))
    /\ UNCHANGED <<platform, scopeVars, editorState, keybindings, keybindingMap,
                   currentChords, chordTimeout, timers, chordModeListeners, rootValues,
                   commands, commandContext, outcome>>

NextExpr ==
    \/ \E when \in WhenInputs : ParseWhen(when)
    \/ EvaluateParsed
    \/ \E setting \in ExprSettings : SetValue(setting[1], setting[2])

SpecExpr == Init /\ [][NextExpr]_vars

\* the state after construction on one platform: neither the context key
\* service nor the reducer reads the platform
InitLinux == Init /\ platform = "linux"

\* the dispatcher and the timers of its event loop, on one platform: the
\* platform decides the chord of a key event, not what is done with a timer
NextTimer ==
    \/ \E e \in KeyEvents : HandleKeyDown(e, ReturnEffect)
    \/ TimerFires
    \/ Dispose
    \/ \E kb \in TimerCatalogue : RegisterKeybinding(kb)
    \/ \E id \in KeybindingIds : UnregisterKeybinding(id)

SpecTimer == InitLinux /\ [][NextTimer]_vars

\* a caller that keeps the Disposables of its registrations
NextDisposables ==
    \/ \E kb \in KeybindingCatalogue : RegisterAndKeep(kb)
    \/ \E kb \in KeybindingCatalogue : DisposeRegistration(kb)

SpecDisposables == InitLinux /\ [][NextDisposables]_vars

-----------------------------------------------------------------------------
(* Callers of the context key service: components that create scopes for   *)
(* their elements, set values, create key handles and dispose the scopes   *)

\* everything but the state of the context key service and the history
otherVars ==
    <<platform, keybindings, keybindingMap, currentChords, chordTimeout, timers,
      chordModeListeners, editorState, commands, commandContext, parsed,
      outcome, disposables>>

KTheme == <<"t", "h", "e", "m", "e">>

Dark == Str(<<"d", "a", "r", "k">>)

Light == Str(<<"l", "i", "g", "h", "t">>)

ThemeValues == {Dark, Light}

ContextListeners == {"l1", "l2"}

\* the handles createKey returns when no default is given: default is Undef
PlainHandles == [scope : 1..MaxScopes, key : {KTheme}, default : {Undef}]

\* the handles createKey returns for the default "light"
DefaultHandles == [scope : 1..MaxScopes, key : {KTheme}, default : {Light}]

\* contextKeyService.createScoped(element)
CreateScoped(element) ==
    /\ Len(scopes) < MaxScopes
    /\ LET parentContextId == GetContextForElement(parentElement[element])
       IN  scopes' = Append(scopes,
                            [parent |-> IF parentContextId \in contexts
                                        THEN parentContextId ELSE 0,
                             values |-> <<>>,
                             element |-> element])
    /\ contexts' = contexts \cup {Len(scopes) + 1}
    /\ keybindingContext' =
           [keybindingContext EXCEPT ![element] = Len(scopes) + 1]
    /\ last' = [Other("createScoped") EXCEPT !.created = Len(scopes) + 1,
                                             !.element = element]
    /\ UNCHANGED <<otherVars, rootValues, parentElement, listeners,
                   keyHandles>>

\* setValue(key, value) of the ScopedContextKeyService of contextId
ScopedSetValue(contextId, key, value) ==
    /\ contextId <= Len(scopes)
    /\ SetValueInContext("scoped.setValue", contextId, key, value)
    /\ UNCHANGED <<otherVars, rootValues, contexts, keybindingContext,
                   parentElement, listeners, keyHandles>>

\* faulty variant: the child scopes are disposed with their parent
DisposeScopeCascading(contextId) ==
    /\ contextId <= Len(scopes)
    /\ contexts' = {c \in contexts :
                       c # contextId /\ scopes[c].parent # contextId}
    /\ last' = [Other("scoped.dispose") EXCEPT !.scope = contextId]
    /\ UNCHANGED <<otherVars, rootValues, scopes, keybindingContext,
                   parentElement, listeners, keyHandles>>

\* dispose() of the ScopedContextKeyService of contextId
DisposeScope(contextId) ==
    /\ contextId <= Len(scopes)
    /\ contexts' = contexts \ {contextId}
    /\ last' = [Other("scoped.dispose") EXCEPT !.scope = contextId]
    /\ UNCHANGED <<otherVars, rootValues, scopes, keybindingContext,
                   parentElement, listeners, keyHandles>>

\* element is below ancestor in the UI hierarchy, or is ancestor
RECURSIVE Within(_, _)
Within(element, ancestor) ==
    /\ element # "none"
    /\ element = ancestor \/ Within(parentElement[element], ancestor)

\* the UI hierarchy is rearranged: element is moved below parent
MoveElement(element, parent) ==
    /\ parentElement[element] # parent
    /\ ~Within(parent, element)
    /\ parentElement' = [parentElement EXCEPT ![element] = parent]
    /\ last' = [Other("move") EXCEPT !.element = element]
    /\ UNCHANGED <<otherVars, rootValues, scopes, contexts, keybindingContext,
                   listeners, keyHandles>>

\* scoped.createKey(key, defaultValue): the constructor of ContextKey sets
\* a default that is not undefined, and no handle is returned if that throws
CreateKey(handle) ==
    /\ handle.scope <= Len(scopes)
    /\ IF handle.default # Undef
       THEN /\ SetValueInContext("createKey", handle.scope, handle.key,
                                 handle.default)
            /\ keyHandles' = IF handle.scope \in contexts
                             THEN keyHandles \cup {handle} ELSE keyHandles
       ELSE /\ scopes' = scopes
            /\ keyHandles' = keyHandles \cup {handle}
            /\ last' = [Other("createKey") EXCEPT !.scope = handle.scope,
                                                  !.key = handle.key]
    /\ UNCHANGED <<otherVars, rootValues, contexts, keybindingContext,
                   parentElement, listeners>>

\* handle.set(value)
KeySet(handle, value) ==
    /\ handle \in keyHandles
    /\ SetValueInContext("set", handle.scope, handle.key, value)
    /\ UNCHANGED <<otherVars, rootValues, contexts, keybindingContext,
                   parentElement, listeners, keyHandles>>

\* handle.reset()
KeyReset(handle) ==
    /\ handle \in keyHandles
    /\ SetValueInContext("reset", handle.scope, handle.key, handle.default)
    /\ UNCHANGED <<otherVars, rootValues, contexts, keybindingContext,
                   parentElement, listeners, keyHandles>>

\* onDidChangeContext(listener): Set.add keeps the place of a member
OnDidChangeContext(listener) ==
    /\ listeners' = IF \E i \in 1..Len(listeners) : listeners[i] = listener
                    THEN listeners ELSE Append(listeners, listener)
    /\ last' = Other("subscribe")
    /\ UNCHANGED <<otherVars, rootValues, scopes, contexts, keybindingContext,
                   parentElement, keyHandles>>

\* the function onDidChangeContext(listener) returned is called
UnsubscribeContext(listener) ==
    /\ LET Kept(l) == l # listener
       IN  listeners' = SelectSeq(listeners, Kept)
    /\ last' = [Other("unsubscribe") EXCEPT !.from = listener]
    /\ UNCHANGED <<otherVars, rootValues, scopes, contexts, keybindingContext,
                   parentElement, keyHandles>>

\* the structure of the scopes: creation, disposal, rearranged elements
NextScopes ==
    \/ \E element \in Elements : CreateScoped(element)
    \/ \E contextId \in 1..MaxScopes : DisposeScope(contextId)
    \/ \E parent \in Elements \cup {"none"} : MoveElement("e3", parent)

SpecScopes == InitLinux /\ [][NextScopes]_vars

\* a component mounts: it creates the scope of its element, once
Mount(element) ==
    /\ keybindingContext[element] = 0
    /\ CreateScoped(element)

\* the values of the scopes of mounted components
NextContext ==
    \/ \E element \in Elements : Mount(element)
    \/ SetValue(KTheme, Dark)
    \/ \E contextId \in 1..MaxScopes :
           \E value \in ThemeValues : ScopedSetValue(contextId, KTheme, value)
    \/ \E contextId \in 1..MaxScopes : DisposeScope(contextId)

SpecContext == InitLinux /\ [][NextContext]_vars

\* keydowns inside regions whose scopes are written between the chords
NextWhen ==
    \/ \E element \in {"e1", "e2"} : Mount(element)
    \/ \E value \in ContextValues : SetValue(KX, value)
    \/ \E contextId \in 1..MaxScopes :
           \E value \in ContextValues : ScopedSetValue(contextId, KX, value)
    \/ \E contextId \in 1..MaxScopes : DisposeScope(contextId)
    \/ \E kb \in WhenCatalogue : RegisterKeybinding(kb)
    \/ \E e \in WhenEvents : HandleKeyDown(e, ReturnEffect)

SpecWhen == InitLinux /\ [][NextWhen]_vars

\* mounted components write through their key handles and are disposed
NextDispose ==
    \/ \E element \in {"e1", "e2"} : Mount(element)
    \/ \E handle \in PlainHandles : CreateKey(handle)
    \/ \E handle \in PlainHandles :
           \E value \in ThemeValues : KeySet(handle, value)
    \/ \E contextId \in 1..MaxScopes : DisposeScope(contextId)

SpecDispose == InitLinux /\ [][NextDispose]_vars

\* key handles without a default on the scopes of e1 and e2
NextKeys ==
    \/ \E element \in {"e1", "e2"} : CreateScoped(element)
    \/ SetValue(KTheme, Dark)
    \/ \E handle \in PlainHandles : CreateKey(handle)
    \/ \E handle \in PlainHandles : KeySet(handle, Light)
    \/ \E handle \in PlainHandles : KeyReset(handle)

SpecKeys == InitLinux /\ [][NextKeys]_vars

\* subscribers and every way to assign a value
NextNotify ==
    \/ \E listener \in ContextListeners : OnDidChangeContext(listener)
    \/ \E listener \in ContextListeners : UnsubscribeContext(listener)
    \/ SetValue(KTheme, Dark)
    \/ CreateScoped("e1")
    \/ \E contextId \in 1..MaxScopes :
           ScopedSetValue(contextId, KTheme, Dark)
    \/ \E handle \in DefaultHandles : CreateKey(handle)
    \/ \E handle \in DefaultHandles : KeySet(handle, Dark)
    \/ \E handle \in DefaultHandles : KeyReset(handle)

SpecNotify == InitLinux /\ [][NextNotify]_vars

\* key handles that outlive the scope they were created in, with subscribers
NextStale ==
    \/ \E listener \in ContextListeners : OnDidChangeContext(listener)
    \/ \E element \in {"e1", "e2"} : Mount(element)
    \/ \E handle \in PlainHandles \cup DefaultHandles : CreateKey(handle)
    \/ \E handle \in PlainHandles \cup DefaultHandles : KeySet(handle, Dark)
    \/ \E handle \in PlainHandles \cup DefaultHandles : KeyReset(handle)
    \/ \E contextId \in 1..MaxScopes : DisposeScope(contextId)

SpecStale == InitLinux /\ [][NextStale]_vars

-----------------------------------------------------------------------------
(* useContextKey: a component's hook creates a scope for its region, one   *)
(* key in it, and subscribes; its cleanup unsubscribes and disposes        *)

KEditorFocus == <<"e", "d", "i", "t", "o", "r", "F", "o", "c", "u", "s">>

KActiveGroupId ==
    <<"a", "c", "t", "i", "v", "e", "G", "r", "o", "u", "p", "I", "d">>

\* the calls of useContextKey: EditorGroup makes two on its own region, a
\* component around it one
Hooks ==
    {[key |-> KEditorFocus, default |-> Bool(FALSE), element |-> "e2",
      listener |-> "editorFocus", value |-> Bool(TRUE)],
     [key |-> KActiveGroupId, default |-> Str(<<>>), element |-> "e2",
      listener |-> "activeGroupId", value |-> Str(<<"g">>)],
     [key |-> KTheme, default |-> Light, element |-> "e1",
      listener |-> "theme", value |-> Dark]}

\* the effect of the hook ran and its cleanup did not
Mounted(hook) == \E i \in 1..Len(listeners) : listeners[i] = hook.listener

\* scopedServiceRef.current of a mounted hook: the scope its effect created
ScopeOfHook(hook) ==
    CHOOSE c \in contexts :
        /\ scopes[c].element = hook.element
        /\ [scope |-> c, key |-> hook.key, default |-> hook.default]
               \in keyHandles

\* the effect of useContextKey(key, defaultValue, elementRef)
UseContextKey(hook) ==
    /\ ~Mounted(hook)
    /\ Len(scopes) < MaxScopes
    /\ LET parentContextId ==
               GetContextForElement(parentElement[hook.element])
       IN  scopes' = Append(scopes,
                            [parent |-> IF parentContextId \in contexts
                                        THEN parentContextId ELSE 0,
                             values |-> Put(<<>>, hook.key, hook.default),
                             element |-> hook.element])
    /\ contexts' = contexts \cup {Len(scopes) + 1}
    /\ keybindingContext' =
           [keybindingContext EXCEPT ![hook.element] = Len(scopes) + 1]
    /\ keyHandles' = keyHandles \cup {[scope |-> Len(scopes) + 1,
                                        key |-> hook.key,
                                        default |-> hook.default]}
    /\ listeners' = Append(listeners, hook.listener)
    /\ last' = [Assignment("useContextKey", Len(scopes) + 1, hook.key,
                           hook.default)
                    EXCEPT !.created = Len(scopes) + 1,
                           !.element = hook.element]
    /\ UNCHANGED <<otherVars, rootValues, parentElement>>

\* the setter useContextKey returns: contextKeyRef.current?.set(newValue)
HookSet(hook) ==
    /\ Mounted(hook)
    /\ SetValueInContext("set", ScopeOfHook(hook), hook.key, hook.value)
    /\ UNCHANGED <<otherVars, rootValues, contexts, keybindingContext,
                   parentElement, listeners, keyHandles>>

\* the cleanup of the effect: unsubscribe(), scoped.dispose()
HookCleanup(hook) ==
    /\ Mounted(hook)
    /\ LET Kept(l) == l # hook.listener
       IN  listeners' = SelectSeq(listeners, Kept)
    /\ contexts' = contexts \ {ScopeOfHook(hook)}
    /\ last' = [Other("cleanup") EXCEPT !.scope = ScopeOfHook(hook),
                                        !.from = hook.listener]
    /\ UNCHANGED <<otherVars, rootValues, scopes, keybindingContext,
                   parentElement, keyHandles>>

NextRegion ==
    \/ \E hook \in Hooks : UseContextKey(hook)
    \/ \E hook \in Hooks : HookSet(hook)
    \/ \E hook \in Hooks : HookCleanup(hook)

SpecRegion == InitLinux /\ [][NextRegion]_vars

-----------------------------------------------------------------------------
(* Callers of editorAreaReducer: each action dispatches one EditorAction   *)
(* on the state the reducer returned last                                  *)

\* everything but the editor state and the history
notEditorVars ==
    <<platform, keybindings, keybindingMap, currentChords, chordTimeout, timers,
      chordModeListeners, rootValues, scopeVars, commands, commandContext,
      parsed, outcome>>

\* the tabs of all groups together
RECURSIVE TabCount(_)
TabCount(groups) ==
    IF groups = <<>> THEN 0
    ELSE Len(Head(groups).tabs) + TabCount(Tail(groups))

AddTab(groupId, uri) ==
    /\ TabCount(editorState.groups) < MaxTabs
    /\ editorState' = ReduceAddTab(editorState, groupId, uri)
    /\ last' = Other("ADD_TAB")
    /\ UNCHANGED notEditorVars

SetActiveTab(groupId, tabIndex) ==
    /\ editorState' = ReduceSetActiveTab(editorState, groupId, tabIndex)
    /\ last' = Other("SET_ACTIVE_TAB")
    /\ UNCHANGED notEditorVars

SetActiveGroup(groupId) ==
    /\ editorState' = ReduceSetActiveGroup(editorState, groupId)
    /\ last' = Other("SET_ACTIVE_GROUP")
    /\ UNCHANGED notEditorVars

CloseTab(groupId, tabIndex) ==
    /\ editorState' = ReduceCloseTab(editorState, groupId, tabIndex)
    /\ last' = Other("CLOSE_TAB")
    /\ UNCHANGED notEditorVars

SplitGroup(groupId, direction) ==
    /\ Len(editorState.groups) < MaxGroups
    /\ editorState' = ReduceSplitGroup(editorState, groupId, direction)
    /\ last' = Other("SPLIT_GROUP")
    /\ UNCHANGED notEditorVars

CloseGroup(groupId) ==
    /\ editorState' = ReduceCloseGroup(editorState, groupId)
    /\ last' = Other("CLOSE_GROUP")
    /\ UNCHANGED notEditorVars

MoveTab(fromGroupId, toGroupId, tabIndex, toIndex) ==
    /\ editorState' = ReduceMoveTab(editorState, fromGroupId, toGroupId,
                                    tabIndex, toIndex)
    /\ last' = Other("MOVE_TAB")
    /\ UNCHANGED notEditorVars

\* a document is opened in a group while few tabs exist
OpenTab(groupId) ==
    /\ TabCount(editorState.groups) < MaxOpen
    /\ AddTab(groupId, "a")

\* groups are split and closed, tabs opened, closed and moved between
\* them; the direction of a split is carried along and never read
NextEditor ==
    \/ \E groupId \in GroupInputs : OpenTab(groupId)
    \/ \E groupId \in GroupInputs : SetActiveTab(groupId, 0)
    \/ \E groupId \in GroupInputs : SetActiveGroup(groupId)
    \/ \E groupId \in GroupInputs :
           \E tabIndex \in {0, 1} : CloseTab(groupId, tabIndex)
    \/ \E groupId \in GroupInputs : SplitGroup(groupId, "row")
    \/ \E groupId \in GroupInputs : CloseGroup(groupId)
    \/ \E fromGroupId \in GroupInputs : \E toGroupId \in GroupInputs :
           MoveTab(fromGroupId, toGroupId, 0, NoIndex)

SpecEditor == InitLinux /\ [][NextEditor]_vars

\* the tabs of the first group are added, selected, closed and reordered
NextTabs ==
    \/ \E uri \in Uris : AddTab(1, uri)
    \/ \E tabIndex \in TabIndices : SetActiveTab(1, tabIndex)
    \/ \E tabIndex \in TabIndices : CloseTab(1, tabIndex)
    \/ \E tabIndex \in TabIndices : \E toIndex \in ToIndices :
           MoveTab(1, 1, tabIndex, toIndex)

SpecTabs == InitLinux /\ [][NextTabs]_vars

-----------------------------------------------------------------------------
(* Vocabulary of the properties *)

\* the platform-resolved sequence of the i-th registered entry
SeqOf(i) == GetKeySequence(keybindings[i], platform)

IsPrefix(p, q) == Len(p) <= Len(q) /\ SubSeq(q, 1, Len(p)) = p

\* the i-th entry matches the chords and passes the context filter
Eligible(i, chords, context) ==
    /\ chords # <<>>
    /\ IsPrefix(chords, SeqOf(i))
    /\ WhenMatches(keybindings[i], context)

EligibleSet(chords, context) ==
    {i \in 1..Len(keybindings) : Eligible(i, chords, context)}

Least(S) == CHOOSE i \in S : \A j \in S : i <= j

\* the i-th entry is [a, b] without when-clause, and the only entry whose
\* sequence starts with a
SoleTwoChord(i, a, b) ==
    /\ i \in 1..Len(keybindings)
    /\ SeqOf(i) = <<a, b>>
    /\ keybindings[i].when = <<>>
    /\ \A j \in 1..Len(keybindings) :
           j # i => (SeqOf(j) = <<>> \/ SeqOf(j)[1] # a)

KeyStep == last'.op = "key"

-----------------------------------------------------------------------------
(* C1: on Found, the event is consumed and the command invoked if and only *)
(* if canExecute(commandId, richContext) holds.  The dispatcher consumes   *)
(* the event on every Found, so this fails.                                *)
C1_CheckBeforeConsume ==
    (last.op = "key" /\ last.result.type = "Found") =>
        /\ last.consumed <=> last.canExecute
        /\ last.invoked <=> last.canExecute

(* C2 as stated: with [A, B] the only binding that starts with A, A from   *)
(* Idle gives MoreChordsNeeded and ChordPending, then B gives Found for    *)
(* its command, while a chord other than B gives NoMatch and an empty      *)
(* buffer, after which B alone does not give Found.                        *)
C2_FirstChords ==
    KeyStep =>
        \A i \in 1..Len(keybindings) :
            /\ (currentChords = <<>> /\ Len(SeqOf(i)) = 2
                /\ SoleTwoChord(i, last'.chord, SeqOf(i)[2])) =>
                    /\ last'.result = MoreChordsNeeded
                    /\ currentChords' = <<last'.chord>>
                    /\ TimerArmed'
            /\ (Len(currentChords) = 1
                /\ SoleTwoChord(i, currentChords[1], last'.chord)) =>
                    last'.result = Found(keybindings[i].commandId)
            /\ (Len(currentChords) = 1 /\ Len(SeqOf(i)) = 2
                /\ SeqOf(i)[2] # last'.chord
                /\ SoleTwoChord(i, currentChords[1], SeqOf(i)[2])) =>
                    /\ last'.result = NoMatch
                    /\ currentChords' = <<>>

\* last records a keydown that broke the pending sequence [a] of entry i
BrokenSequence(i) ==
    /\ last.op = "key"
    /\ last.result = NoMatch
    /\ Len(last.before) = 1
    /\ Len(SeqOf(i)) = 2
    /\ SoleTwoChord(i, last.before[1], SeqOf(i)[2])

C2_Original ==
    [][/\ C2_FirstChords
       /\ KeyStep =>
            \A i \in 1..Len(keybindings) :
                (BrokenSequence(i) /\ last'.chord = SeqOf(i)[2]) =>
                    last'.result.type # "Found"]_vars

(* C2 amended: ... after which B alone is resolved as the one-chord        *)
(* sequence [B]: it does not complete the [A, B] binding and gives Found   *)
(* only if some registered binding has exactly the sequence [B].           *)
C2_Sequence ==
    [][/\ C2_FirstChords
       /\ KeyStep =>
            \A i \in 1..Len(keybindings) :
                (BrokenSequence(i) /\ last'.chord = SeqOf(i)[2]) =>
                    /\ last'.chords = <<last'.chord>>
                    /\ last'.result.type = "Found" =>
                          \E j \in 1..Len(keybindings) :
                              SeqOf(j) = <<last'.chord>>]_vars

\* A then a chord other than B was pressed: NoMatch and the buffer is empty
C2_Witness ==
    /\ \E i \in 1..Len(keybindings) : BrokenSequence(i)
    /\ currentChords = <<>>

(* C3: when the chord timer fires the buffer is discarded, and the next    *)
(* keydown is resolved as a one-chord sequence with the outcome it has     *)
(* from Idle; it is never appended to the expired sequence.                *)
C3_Expiry ==
    [][/\ last'.op = "timer" =>
            /\ currentChords # <<>>
            /\ currentChords' = <<>>
            /\ ~TimerArmed'
       /\ (KeyStep /\ outcome = "expired") =>
            /\ last'.before = <<>>
            /\ last'.chords = <<last'.chord>>
            /\ last'.result = Resolve(<<last'.chord>>, GetContext,
                                      keybindingMap, platform)]_vars

\* a keydown right after an expiry that is the first chord of a sequence
C3_Witness ==
    /\ last.op = "key"
    /\ last.from = "expired"
    /\ last.result = MoreChordsNeeded

(* C4: the buffer is non-empty exactly when the latest resolution outcome  *)
(* was MoreChordsNeeded with no expiry or dispose since, the timer is      *)
(* armed exactly when the buffer is non-empty, and Found and NoMatch leave *)
(* the buffer empty.                                                       *)
C4_BufferInvariant ==
    /\ (currentChords # <<>>) <=> (outcome = "MoreChordsNeeded")
    /\ TimerArmed <=> (currentChords # <<>>)
    /\ outcome \in {"Found", "NoMatch"} => currentChords = <<>>

C4_Witness ==
    /\ outcome = "MoreChordsNeeded"
    /\ Len(currentChords) = 1
    /\ TimerArmed

(* C5: resolve is decided by the first entry, in registration order, that *)
(* has pendingChords as a prefix of its sequence and passes the context    *)
(* filter: Found if the lengths are equal, MoreChordsNeeded if the entry   *)
(* is longer, NoMatch if pendingChords is empty or there is no such entry. *)
C5_FirstSurvivor ==
    last.op = "resolve" =>
        LET S == EligibleSet(last.chords, rootValues)
        IN  IF last.chords = <<>> \/ S = {} THEN last.result = NoMatch
            ELSE IF Len(SeqOf(Least(S))) = Len(last.chords)
                 THEN last.result = Found(keybindings[Least(S)].commandId)
                 ELSE last.result = MoreChordsNeeded

\* two eligible entries with different commands, the first one decided
C5_Witness ==
    /\ last.op = "resolve"
    /\ last.result.type = "Found"
    /\ \E i, j \in EligibleSet(last.chords, rootValues) :
           /\ i < j
           /\ keybindings[i].commandId # keybindings[j].commandId
           /\ last.result.commandId = keybindings[i].commandId

\* entries i < j are the only ones on chord a, with when-clauses x and !x
ExclusivePair(i, j, a) ==
    /\ i < j
    /\ SeqOf(i) = <<a>> /\ keybindings[i].when = WhenX
    /\ SeqOf(j) = <<a>> /\ keybindings[j].when = WhenNotX
    /\ \A m \in 1..Len(keybindings) :
           m \notin {i, j} => (SeqOf(m) = <<>> \/ SeqOf(m)[1] # a)

(* C6: of two entries on the same chord with when-clauses x and !x, the    *)
(* first is returned under {x: true} and the second under {x: false}.      *)
C6_ExclusiveWhen ==
    (last.op = "resolve" /\ Len(last.chords) = 1) =>
        \A i, j \in 1..Len(keybindings) :
            ExclusivePair(i, j, last.chords[1]) =>
                /\ rootValues = (KX :> Bool(TRUE)) =>
                       last.result = Found(keybindings[i].commandId)
                /\ rootValues = (KX :> Bool(FALSE)) =>
                       last.result = Found(keybindings[j].commandId)

\* {x: false}: the first entry is filtered out and the second one is found
C6_Witness ==
    /\ last.op = "resolve"
    /\ Len(last.chords) = 1
    /\ rootValues = (KX :> Bool(FALSE))
    /\ \E i, j \in 1..Len(keybindings) :
           /\ ExclusivePair(i, j, last.chords[1])
           /\ keybindings[i].commandId # keybindings[j].commandId
           /\ last.result = Found(keybindings[j].commandId)

\* the entries that are the one chord c without when-clause
PlainSingle(c) ==
    {i \in 1..Len(keybindings) :
        SeqOf(i) = <<c>> /\ keybindings[i].when = <<>>}

\* c is the leading chord of no entry
Unbound(c) ==
    \A i \in 1..Len(keybindings) : SeqOf(i) = <<>> \/ SeqOf(i)[1] # c

(* C7 as stated: resolving the chord of a registered single-chord entry    *)
(* without when-clause gives Found in every state of the table, and a      *)
(* chord that leads no entry gives NoMatch.                                *)
C7_Original ==
    (last.op = "resolve" /\ Len(last.chords) = 1) =>
        /\ PlainSingle(last.chords[1]) # {} => last.result.type = "Found"
        /\ Unbound(last.chords[1]) => last.result = NoMatch

(* C7 amended: it gives Found unless the first eligible entry in           *)
(* registration order is a longer sequence that starts with the chord, in  *)
(* which case it gives MoreChordsNeeded; it never gives NoMatch.  A chord  *)
(* that leads no entry gives NoMatch.                                      *)
C7_SingleChord ==
    (last.op = "resolve" /\ Len(last.chords) = 1) =>
        /\ PlainSingle(last.chords[1]) # {} =>
              LET first == Least(EligibleSet(last.chords, rootValues))
              IN  last.result.type =
                      IF Len(SeqOf(first)) > 1 THEN "MoreChordsNeeded"
                      ELSE "Found"
        /\ Unbound(last.chords[1]) => last.result = NoMatch

\* a longer entry registered before the single-chord one takes the chord
C7_Witness ==
    /\ last.op = "resolve"
    /\ Len(last.chords) = 1
    /\ PlainSingle(last.chords[1]) # {}
    /\ last.result = MoreChordsNeeded

\* the entry without its when-clause if that clause is "a &&"
WithoutInvalidWhen(kb) ==
    IF kb.when = WhenInvalid THEN [kb EXCEPT !.when = <<>>] ELSE kb

StrippedMap ==
    [c \in DOMAIN keybindingMap |->
        [i \in 1..Len(keybindingMap[c]) |->
            WithoutInvalidWhen(keybindingMap[c][i])]]

(* C8: an entry whose when-clause does not parse ("a &&") passes the       *)
(* filter in every context, so every resolve gives what it gives with      *)
(* that when-clause removed.                                               *)
C8_InvalidWhenPasses ==
    /\ ~Parse(WhenInvalid).ok
    /\ \A i \in 1..Len(keybindings) :
           keybindings[i].when \in {<<>>, WhenInvalid} =>
               WhenMatches(keybindings[i], rootValues)
    /\ last.op = "resolve" =>
           last.result = Resolve(last.chords, rootValues, StrippedMap, platform)

\* an entry with the when-clause "a &&" was found
C8_Witness ==
    /\ last.op = "resolve"
    /\ last.result.type = "Found"
    /\ LET S == EligibleSet(last.chords, rootValues)
       IN  S # {} /\ keybindings[Least(S)].when = WhenInvalid

(* C9: a handler that unregisters a keybinding while it is invoked for a   *)
(* Found outcome does not make the dispatch throw; the outcome is the one  *)
(* resolved on the table as it was before the handler ran, the keystroke   *)
(* ends in Idle and the entry is gone for later keystrokes.                *)
C9_UnregisterInHandler ==
    [][(KeyStep /\ last'.invoked /\ last'.effect.kind = "unregister") =>
          /\ ~last'.threw
          /\ last'.result = Resolve(Append(currentChords, last'.chord),
                                    GetContext, keybindingMap, platform)
          /\ last'.result.type = "Found"
          /\ currentChords' = <<>>
          /\ ~TimerArmed'
          /\ Len(keybindings') =
                 Len(keybindings) -
                 (IF \E i \in 1..Len(keybindings) :
                         keybindings[i].id = last'.effect.id
                  THEN 1 ELSE 0)]_vars

\* the handler removed the only entry, the one that had just been resolved
C9_Witness ==
    /\ last.op = "key"
    /\ last.invoked
    /\ last.effect.kind = "unregister"
    /\ keybindings = <<>>
    /\ DOMAIN keybindingMap = {}
    /\ currentChords = <<>>

(* C10: a handler that throws or returns a rejected promise never makes    *)
(* handleKeyDown throw: the failure is logged and the keystroke ends in    *)
(* Idle with an empty buffer and no armed timer.                           *)
C10_HandlerFailure ==
    (last.op = "key" /\ last.invoked /\ last.effect.kind \in {"throw", "reject"}) =>
        /\ ~last.threw
        /\ last.logged
        /\ last.consumed
        /\ outcome = "Found"
        /\ currentChords = <<>>
        /\ ~TimerArmed

\* a handler threw at the end of a two-chord sequence
C10_Witness ==
    /\ last.op = "key"
    /\ last.invoked
    /\ last.effect.kind = "throw"
    /\ Len(last.chords) = 2
    /\ last.logged

\* the keydown is on a text-editing control or is a standalone modifier press
TextEditingOrModifier(e) ==
    \/ /\ e.target.isHTMLElement
       /\ \/ e.target.tagName \in {"INPUT", "TEXTAREA"}
          \/ e.target.isContentEditable
    \/ e.key \in {"Shift", "Control", "Alt", "Meta"}

(* C11: a keydown on an input, textarea or contentEditable target, or a    *)
(* standalone modifier press, is ignored in every dispatcher state: the    *)
(* buffer, the timer, the table and the latest resolution outcome stay as  *)
(* they were, the event is not consumed and no chord-mode event is fired.  *)
C11_Ignored ==
    [][(last'.op \in {"key", "ignored"} /\ TextEditingOrModifier(last'.event)) =>
          /\ last'.op = "ignored"
          /\ ~last'.consumed
          /\ last'.fired = <<>>
          /\ UNCHANGED <<currentChords, chordTimeout, timers, keybindings,
                         keybindingMap, chordModeListeners, outcome>>]_vars

\* a keydown on a contentEditable target was ignored while a sequence was
\* pending, and the sequence is still pending
C11_Witness ==
    /\ last.op = "ignored"
    /\ last.event.target.isContentEditable
    /\ Len(last.before) = 1
    /\ currentChords = last.before
    /\ TimerArmed

(* C12: in Idle, a keydown whose chord resolves to NoMatch has no effect:  *)
(* the event is not consumed, the buffer stays empty, no timer is armed    *)
(* and no chord-mode event is delivered to a listener.  resetChords runs   *)
(* after the chord was pushed, so it fires {active: false}, and this fails.*)
C12_IdleNoMatch ==
    (last.op = "key" /\ last.before = <<>> /\ last.result = NoMatch) =>
        /\ ~last.consumed
        /\ currentChords = <<>>
        /\ ~TimerArmed
        /\ chordModeListeners # {} => last.fired = <<>>

\* the entries of the leading-chord index
Indexed ==
    UNION {SeqToSet(keybindingMap[c]) : c \in DOMAIN keybindingMap}

(* C13: after unregister(id), also called by the Disposable of             *)
(* registerKeybinding, no entry with that id is left in the list or in the *)
(* leading-chord index.  unregister removes only the earliest entry with   *)
(* the id, so with two entries registered under one id this fails.         *)
C13_Unregistered ==
    last.op = "unregister" =>
        /\ \A i \in 1..Len(keybindings) : keybindings[i].id # last.id
        /\ \A kb \in Indexed : kb.id # last.id

\* the entries of the list that resolve to no key sequence on the platform
Unkeyed == {i \in 1..Len(keybindings) : SeqOf(i) = <<>>}

(* C14: an entry whose key sequence is empty is registered without error:  *)
(* it is listed by getAll and found by lookupKeybinding, it is not in the  *)
(* leading-chord index, no resolve answers on account of it, and           *)
(* unregistering it removes it from the list and leaves the index alone.   *)
C14_EmptySequence ==
    [][/\ \A i \in Unkeyed :
             LET kb == keybindings[i]
             IN  /\ GetAll(keybindings)[i] = kb
                 /\ LookupKeybinding(keybindings, kb.commandId) # <<>>
                 /\ (\A j \in 1..Len(keybindings) :
                        keybindings[j].commandId = kb.commandId => j >= i)
                        => LookupKeybinding(keybindings, kb.commandId) = <<kb>>
                 /\ kb \notin Indexed
       /\ (last'.op = "resolve" /\ last'.result # NoMatch) =>
             \E i \in 1..Len(keybindings) \ Unkeyed :
                 /\ IsPrefix(last'.chords, SeqOf(i))
                 /\ last'.result.type = "Found" =>
                        last'.result.commandId = keybindings[i].commandId
       /\ (/\ last'.op = "unregister"
           /\ last'.removed # <<>>
           /\ GetKeySequence(last'.removed[1], platform) = <<>>) =>
             /\ Len(keybindings') = Len(keybindings) - 1
             /\ \A kb \in SeqToSet(keybindings') : kb \in SeqToSet(keybindings)
             /\ keybindingMap' = keybindingMap]_vars

\* an entry without key sequence was unregistered while the index held
\* another entry, which is still there
C14_Witness ==
    /\ last.op = "unregister"
    /\ last.removed # <<>>
    /\ GetKeySequence(last.removed[1], platform) = <<>>
    /\ Len(keybindings) = 1
    /\ Indexed = {keybindings[1]}

\* the modifier order the canonical chord token has on the platform
ClaimedOrder ==
    IF platform = "mac" THEN <<"Ctrl", "Alt", "Shift", "Cmd">>
    ELSE <<"Ctrl", "Shift", "Alt", "Meta">>

\* the canonical token of a written chord: its modifiers in ClaimedOrder
CanonicalToken(chord) ==
    LET Written(m) == \E i \in 1..(Len(chord) - 1) : chord[i] = m
    IN  SelectSeq(ClaimedOrder, Written) \o <<chord[Len(chord)]>>

(* C15: on every platform a key sequence written with its modifiers in any *)
(* order is stored by register as the chord tokens that eventToChord       *)
(* produces for the key events with those modifiers held (mac: Ctrl, Alt,  *)
(* Shift, Cmd; others: Ctrl, Shift, Alt, Meta), so pressing the keys       *)
(* resolves to the entry; the number and order of the chords are kept.     *)
C15_Normalized ==
    last.op = "normalize" =>
        /\ Len(last.chords) = Len(last.before)
        /\ \A i \in 1..Len(last.before) :
               /\ last.chords[i] = CanonicalToken(last.before[i])
               /\ last.chords[i] = EventToChord(EventFor(last.before[i]), platform)
        /\ last.result = Found("c1")

\* Meta+Alt+Shift+Ctrl+K then a second chord, registered off mac
C15_Witness ==
    /\ last.op = "normalize"
    /\ platform = "linux"
    /\ last.before = << <<"Meta", "Alt", "Shift", "Ctrl", "K">>, SecondChord >>
    /\ last.chords = << <<"Ctrl", "Shift", "Alt", "Meta", "K">>,
                        <<"Ctrl", "Shift", "C">> >>
    /\ last.result.type = "Found"

(* C16: ContextKeyExpression.parse does not throw, and it returns null for *)
(* every when clause that is not an expression: the empty or blank string, *)
(* a dangling or leading operator, an unclosed parenthesis, trailing       *)
(* characters, an unterminated string or regex literal, a regex that does  *)
(* not compile.                                                            *)
C16_InvalidIsNull ==
    last.op = "parse" =>
        /\ ~last.threw
        /\ last.when \in InvalidInputs => parsed = NothingParsed

\* "a =~ /a/gg" was parsed: the flags do not compile
C16_Witness ==
    /\ last.op = "parse"
    /\ last.when = WhenBadFlags
    /\ ~parsed.ok

\* the context holds a value under key that a bare identifier accepts
Holds(key) ==
    /\ key \in DOMAIN rootValues
    /\ rootValues[key] \notin {Undef, Bool(FALSE), Num(0), Str(<<>>)}

\* the expression that was evaluated last is the one parse gives for when
EvaluatedInput(when) ==
    /\ last.op = "evaluate"
    /\ ParsedInputs[when].ok
    /\ parsed.node = ParsedInputs[when].node

(* C17: && binds tighter than ||, parentheses override that, and ! negates *)
(* only the primary that follows it: under every truth assignment of a, b  *)
(* and c, "a || b && c" is a OR (b AND c), "a && b || c" is (a AND b) OR   *)
(* c, "(a || b) && c" is (a OR b) AND c, "!a && b" is (NOT a) AND b,       *)
(* "!a || b" is (NOT a) OR b and "!(a || b)" is NOT (a OR b).              *)
C17_Precedence ==
    /\ EvaluatedInput(WhenOrAnd) =>
            (last.value <=> (Holds(KA) \/ (Holds(KB) /\ Holds(KC))))
    /\ EvaluatedInput(WhenAndOr) =>
            (last.value <=> ((Holds(KA) /\ Holds(KB)) \/ Holds(KC)))
    /\ EvaluatedInput(WhenGrouped) =>
            (last.value <=> ((Holds(KA) \/ Holds(KB)) /\ Holds(KC)))
    /\ EvaluatedInput(WhenNotAnd) =>
            (last.value <=> (~Holds(KA) /\ Holds(KB)))
    /\ EvaluatedInput(WhenNotOr) =>
            (last.value <=> (~Holds(KA) \/ Holds(KB)))
    /\ EvaluatedInput(WhenNotGroup) =>
            (last.value <=> ~(Holds(KA) \/ Holds(KB)))

\* "a || b && c" is true with a and b true and c false, where
\* (a OR b) AND c is false
C17_Witness ==
    /\ EvaluatedInput(WhenOrAnd)
    /\ Holds(KA) /\ Holds(KB)
    /\ KC \in DOMAIN rootValues /\ ~Holds(KC)
    /\ last.value

\* the context holds a number under key
HoldsNumber(key) ==
    key \in DOMAIN rootValues /\ rootValues[key].t = "number"

(* C18: evaluate of a relational expression does not throw and is true    *)
(* exactly when the context value is of type number and satisfies the      *)
(* comparison; under a string, a boolean, undefined or no value it is      *)
(* false: "a > 5", "a >= 6", "a < 6" and "a <= 5" over every value of a.   *)
C18_Relational ==
    /\ last.op = "evaluate" => ~last.threw
    /\ EvaluatedInput(WhenGreater) =>
            (last.value <=> (HoldsNumber(KA) /\ rootValues[KA].n > 5))
    /\ EvaluatedInput(WhenGreaterEq) =>
            (last.value <=> (HoldsNumber(KA) /\ rootValues[KA].n >= 6))
    /\ EvaluatedInput(WhenSmaller) =>
            (last.value <=> (HoldsNumber(KA) /\ rootValues[KA].n < 6))
    /\ EvaluatedInput(WhenSmallerEq) =>
            (last.value <=> (HoldsNumber(KA) /\ rootValues[KA].n <= 5))

\* "a > 5" is false under {a: "6"}
C18_Witness ==
    /\ EvaluatedInput(WhenGreater)
    /\ KA \in DOMAIN rootValues
    /\ rootValues[KA] = Str(<<"6">>)
    /\ ~last.value

(* C19: a bare identifier evaluates to true exactly when the context holds *)
(* the key with a value that is none of undefined, false, 0 and ''; for a  *)
(* key that was never set it is false and its negation is true, without a  *)
(* throw.                                                                  *)
C19_BareIdentifier ==
    /\ EvaluatedInput(WhenBare) => (last.value <=> Holds(KA)) /\ ~last.threw
    /\ EvaluatedInput(WhenNegated) =>
            (last.value <=> ~Holds(KA)) /\ ~last.threw

\* "!a" is true while a was never set
C19_Witness ==
    /\ EvaluatedInput(WhenNegated)
    /\ KA \notin DOMAIN rootValues
    /\ last.value

(* C20: evaluate is pure: it leaves the context map as it was, and         *)
(* evaluating the same parsed expression again against the same context    *)
(* returns the same boolean, for every kind of expression.                 *)
C20_Pure ==
    [][last'.op = "evaluate" =>
          /\ rootValues' = rootValues
          /\ last.op = "evaluate" /\ parsed'.node = parsed.node =>
                 last'.value = last.value]_vars

\* the ids of the Context objects from id to the root, along parent
RECURSIVE ChainOf(_)
ChainOf(id) ==
    IF id = NoParent THEN <<>>
    ELSE <<id>> \o ChainOf(ContextObject(id).parent)

\* the scopes of the chain of id that hold an entry for key
Defining(id, key) ==
    {n \in 1..Len(ChainOf(id)) :
        key \in DOMAIN ContextObject(ChainOf(id)[n]).values}

\* the value of key in the nearest scope of the chain of id that holds one
NearestValue(id, key) ==
    ContextObject(ChainOf(id)[CHOOSE n \in Defining(id, key) :
                                 \A m \in Defining(id, key) : n <= m]).values[key]

\* the root and the scopes that were not disposed
LiveScopes == contexts \cup {0}

\* getContext(id) is the merge of the chain in which the nearest scope wins
MergedSnapshot(id) ==
    /\ DOMAIN GetContextOf(id) = {key \in {KTheme} : Defining(id, key) # {}}
    /\ \A key \in DOMAIN GetContextOf(id) :
           GetContextOf(id)[key] = NearestValue(id, key)

DefinedIn(id, key) ==
    {n \in Defining(id, key) :
        ContextObject(ChainOf(id)[n]).values[key] # Undef}

\* the value of the nearest scope of the chain that defines key, undefined
\* if no scope of the chain does
NearestDefined(id, key) ==
    IF DefinedIn(id, key) = {} THEN Undef
    ELSE ContextObject(ChainOf(id)[CHOOSE n \in DefinedIn(id, key) :
                                      \A m \in DefinedIn(id, key) : n <= m]).values[key]

(* C22: getValue(key, scopeId) is the value of the nearest scope on the    *)
(* chain from the scope to the root that defines the key; a scope in which *)
(* the key is undefined, because it was never set or was set or reset to   *)
(* undefined through a handle without default, is skipped.                 *)
C22_SkipsUndefined ==
    \A id \in LiveScopes : GetValue(KTheme, id) = NearestDefined(id, KTheme)

(* C23: once a scope is disposed, getContextForElement returns its id for *)
(* no region: for the region of the scope and for every region below it,  *)
(* the lookup yields a live scope, or none, which stands for the root.     *)
C23_DisposedUnbound ==
    \A element \in Elements : GetContextForElement(element) \in LiveScopes

\* the live scopes whose parent is the scope id
ChildScopes(id) == {c \in contexts : scopes[c].parent = id}

\* every own value of the scope id is what getValue and getContext return
OwnValuesReadable(id) ==
    \A key \in DOMAIN scopes[id].values :
        /\ GetValue(key, id) = scopes[id].values[key]
        /\ key \in DOMAIN GetContextOf(id)
        /\ GetContextOf(id)[key] = scopes[id].values[key]

(* C24: disposing a scope leaves each of its child scopes alive under the  *)
(* same id with the same own values, which getValue and getContext on the  *)
(* child still return; and a handle of a child whose parent was disposed   *)
(* still writes the child's value.                                         *)
C24_ChildrenKept ==
    [][/\ last'.op = "scoped.dispose" =>
              \A c \in ChildScopes(last'.scope) \ {last'.scope} :
                  /\ c \in contexts'
                  /\ scopes'[c] = scopes[c]
                  /\ OwnValuesReadable(c)'
       /\ \A c \in contexts :
              /\ last'.op = "set" /\ last'.scope = c
              /\ scopes[c].parent \notin LiveScopes
              => /\ ~last'.threw
                 /\ scopes'[c].values[last'.key] = last'.newValue
                 /\ OwnValuesReadable(c)']_vars

\* the parent of a child that holds "light" was just disposed
C24_Witness ==
    /\ last.op = "scoped.dispose" /\ last.scope = 1
    /\ 2 \in contexts
    /\ scopes[2].parent = 1
    /\ GetValue(KTheme, 2) = Light

\* the live scopes of the nearest region, from element upwards, that has a
\* live scope
RECURSIVE NearestEnclosing(_)
NearestEnclosing(element) ==
    IF element = "none" THEN {}
    ELSE IF \E c \in contexts : scopes[c].element = element
    THEN {c \in contexts : scopes[c].element = element}
    ELSE NearestEnclosing(parentElement[element])

(* C25: createScoped(region) gives the new scope the nearest enclosing     *)
(* scope that exists at that moment as its parent, the root if there is    *)
(* none; no later step (moved elements, scopes created or disposed)        *)
(* changes the parent of an existing scope; and every parent chain ends at *)
(* the root.                                                               *)
C25_ParentFixed ==
    [][/\ \A id \in 1..Len(scopes) : scopes'[id].parent = scopes[id].parent
       /\ \A id \in 1..Len(scopes') :
              ChainOf(id)'[Len(ChainOf(id)')] = 0
       /\ \A element \in Elements :
              last'.op = "createScoped" /\ last'.element = element =>
                  IF NearestEnclosing(parentElement[element]) = {}
                  THEN scopes'[last'.created].parent = 0
                  ELSE scopes'[last'.created].parent
                           \in NearestEnclosing(parentElement[element])]_vars

(* C26: every assignment of a value (setValue on the root or on a scope,   *)
(* set or reset of a key handle, the default createKey assigns) calls each *)
(* listener that is subscribed at that moment exactly once with the key    *)
(* and the value, and calls no listener that was unsubscribed.             *)
C26_EveryListener ==
    last.assigned => last.delivered = listeners

\* the snapshot the dispatcher takes for a key event inside element:
\* getContext(getContextForElement(element)), no scope id meaning the root
RegionSnapshot(element) == GetContextOf(GetContextForElement(element))

(* C27: every context key a mounted component created for its region with *)
(* useContextKey is a key of getContext(getContextForElement(region)),     *)
(* also when several keys were created for that region.                    *)
C27_KeysOfRegion ==
    \A hook \in Hooks :
        Mounted(hook) => hook.key \in DOMAIN RegionSnapshot(hook.element)

RECURSIVE LeafIds(_)
RECURSIVE LeafIdsFrom(_, _)

\* the group ids of the leaves of the children from the i-th on
LeafIdsFrom(children, i) ==
    IF i > Len(children) THEN <<>>
    ELSE LeafIds(children[i]) \o LeafIdsFrom(children, i + 1)

\* the group ids of the leaves of tree, from left to right
LeafIds(tree) ==
    IF tree.type = "leaf" THEN <<tree.groupId>>
    ELSE IF tree.type = "split" THEN LeafIdsFrom(tree.children, 1)
    ELSE <<>>

\* the leaves of the layout that reference the group groupId
LeavesOf(state, groupId) ==
    {i \in 1..Len(LeafIds(state.layout)) :
        LeafIds(state.layout)[i] = groupId}

ClosesGroup(state, next, groupId) ==
    /\ groupId \notin UsedGroupIds(next)
    /\ UsedGroupIds(next) = UsedGroupIds(state) \ {groupId}
    /\ next.activeGroupId \in UsedGroupIds(next)

(* C29: after any sequence of reducer actions at least one group exists    *)
(* and activeGroupId names an existing group; CLOSE_GROUP on the only      *)
(* group returns the state as it is, CLOSE_GROUP on the active group makes *)
(* a remaining group the active one, and CLOSE_TAB on the last tab of a    *)
(* group that is not the only one closes that group.                       *)
C29_ActiveGroupExists ==
    /\ Len(editorState.groups) >= 1
    /\ editorState.activeGroupId \in UsedGroupIds(editorState)
    /\ \A groupId \in GroupInputs :
           Len(editorState.groups) = 1 =>
               ReduceCloseGroup(editorState, groupId) = editorState
    /\ Len(editorState.groups) > 1 =>
           ClosesGroup(editorState,
                       ReduceCloseGroup(editorState,
                                        editorState.activeGroupId),
                       editorState.activeGroupId)
    /\ \A g \in 1..Len(editorState.groups) :
           Len(editorState.groups) > 1 /\ Len(editorState.groups[g].tabs) = 1
               => ClosesGroup(editorState,
                              ReduceCloseTab(editorState,
                                             editorState.groups[g].id, 0),
                              editorState.groups[g].id)

\* the last tab of the active first group was closed while a second group
\* existed: the second group is left and active
C29_Witness ==
    /\ last.op = "CLOSE_TAB"
    /\ editorState.groups = <<EmptyGroup(2)>>
    /\ editorState.activeGroupId = 2

\* the id of the tab activeIndex points to in the group at place g, 0 if
\* it points to none
ActiveTabId(state, g) ==
    IF state.groups[g].activeIndex \in 0..(Len(state.groups[g].tabs) - 1)
    THEN state.groups[g].tabs[state.groups[g].activeIndex + 1].id
    ELSE 0

(* C30: MOVE_TAB within one group keeps the same tab active: after the     *)
(* reorder, activeIndex points to the tab it pointed to before.            *)
C30_SameTabActive ==
    [][last'.op = "MOVE_TAB" =>
           ActiveTabId(editorState', 1) = ActiveTabId(editorState, 1)]_vars

(* C31: on Found the dispatcher is Idle, with an empty buffer and no armed *)
(* timer, before the command handler starts: that is the state the handler *)
(* observes.                                                               *)
C31_IdleBeforeHandler ==
    last.op = "key" /\ last.invoked =>
        last.observed.chords = <<>> /\ ~last.observed.timeout

(* C32: a keydown in ChordPending whose buffer resolves to NoMatch discards *)
(* the whole buffer, invokes no command and is left unconsumed, even when   *)
(* its chord alone is bound; a keydown from Idle is resolved as the single  *)
(* chord it carries.                                                        *)
C32_NoMatchDiscards ==
    [][last'.op = "key" =>
        /\ last'.result = Resolve(Append(currentChords, last'.chord),
                                  GetContext, keybindingMap, platform)
        /\ (currentChords # <<>> /\ last'.result.type = "NoMatch" =>
                /\ currentChords' = <<>>
                /\ ~TimerArmed'
                /\ ~last'.consumed
                /\ ~last'.invoked)]_vars

\* a NoMatch in ChordPending on a chord that alone is bound
C32_Witness ==
    /\ last.op = "key"
    /\ last.before # <<>>
    /\ last.result.type = "NoMatch"
    /\ currentChords = <<>>
    /\ Resolve(<< last.chord >>, GetContext, keybindingMap,
               platform).type = "Found"

(* C33: at most one expiry timer is pending, the one whose handle the     *)
(* dispatcher holds: a keydown that yields MoreChordsNeeded cancels the     *)
(* timer of the previous chord and arms a new one, and Found, NoMatch, the  *)
(* expiry and dispose leave no timer pending, so the timer that fires is    *)
(* the one armed at the latest chord of the pending sequence.               *)
C33_SingleTimer ==
    [][/\ timers' = (IF TimerArmed' THEN {chordTimeout'} ELSE {})
       /\ (last'.op = "key" /\ last'.result.type = "MoreChordsNeeded" =>
              /\ TimerArmed'
              /\ chordTimeout' # chordTimeout
              /\ chordTimeout \notin timers')
       /\ (last'.op = "key" /\ last'.result.type \in {"Found", "NoMatch"} =>
              timers' = {})
       /\ (last'.op = "timer" =>
              /\ TimerArmed
              /\ timers \ timers' = {chordTimeout})
       /\ (last'.op \in {"timer", "dispose"} => timers' = {})]_vars

\* the second chord of a three-chord sequence replaced the timer of the first
C33_Witness ==
    /\ last.op = "key"
    /\ last.result.type = "MoreChordsNeeded"
    /\ Len(last.before) = 1
    /\ timers = {chordTimeout}

\* the nearest enclosing scope of the element that exists, 0 for the root
NearestScope(element) ==
    IF NearestEnclosing(element) = {} THEN 0
    ELSE CHOOSE c \in NearestEnclosing(element) : TRUE

(* C34: each keydown is resolved against the snapshot, taken at that        *)
(* keydown, of the nearest enclosing scope of the event target, the root if *)
(* there is none, so the when-clause of a multi-chord binding is evaluated  *)
(* on every chord; a keydown that yields NoMatch is left unconsumed and the *)
(* buffer is discarded.                                                     *)
C34_SnapshotPerChord ==
    [][\A element \in Elements :
          last'.op = "key" /\ last'.event.target.element = element =>
              /\ last'.result =
                     Resolve(Append(currentChords, last'.chord),
                             GetContextOf(NearestScope(element)),
                             keybindingMap, platform)
              /\ (last'.result.type = "NoMatch" =>
                     ~last'.consumed /\ currentChords' = <<>>)]_vars

(* C35: the events delivered to the chord-mode listeners alternate: a step *)
(* delivers {active: false} only when the dispatcher was in ChordPending,   *)
(* that is when {active: true} was the latest event fired; {active: true}   *)
(* carries the buffer and {active: false} carries no chord.                 *)
C35_Alternation ==
    [][chordModeListeners # {} =>
          \A i \in 1..Len(last'.fired) :
              IF last'.fired[i].active
              THEN last'.fired[i].chords = currentChords'
              ELSE /\ last'.fired[i].chords = <<>>
                   /\ currentChords # <<>>]_vars

\* the entries of the list that chord c leads on the platform, in
\* registration order
LedBy(c) ==
    LET Leads(kb) == /\ GetKeySequence(kb, platform) # <<>>
                     /\ GetKeySequence(kb, platform)[1] = c
    IN  SelectSeq(keybindings, Leads)

(* C36: the leading-chord index holds exactly the entries of the list that *)
(* have a non-empty key sequence on the platform, each in the bucket of the *)
(* first chord of that sequence and in registration order, and no bucket is *)
(* empty.                                                                   *)
C36_IndexMatchesList ==
    /\ \A c \in DOMAIN keybindingMap :
           keybindingMap[c] # <<>> /\ keybindingMap[c] = LedBy(c)
    /\ \A i \in 1..Len(keybindings) :
           SeqOf(i) # <<>> => SeqOf(i)[1] \in DOMAIN keybindingMap

\* one of two entries with the same id and leading chord was unregistered
C36_Witness ==
    /\ last.op = "unregister"
    /\ last.removed # <<>>
    /\ Len(keybindings) = 1
    /\ keybindings[1].id = last.id
    /\ SeqOf(1) # <<>>
    /\ GetKeySequence(last.removed[1], platform) # <<>>
    /\ SeqOf(1)[1] = GetKeySequence(last.removed[1], platform)[1]
    /\ keybindingMap[SeqOf(1)[1]] = << keybindings[1] >>

\* entries i and j are eligible, the sequence of i is a strict prefix of the
\* sequence of j, and no other entry starts with their first chord
PrefixPair(i, j) ==
    /\ i # j
    /\ SeqOf(i) # <<>>
    /\ Len(SeqOf(i)) < Len(SeqOf(j))
    /\ IsPrefix(SeqOf(i), SeqOf(j))
    /\ WhenMatches(keybindings[i], GetContext)
    /\ WhenMatches(keybindings[j], GetContext)
    /\ \A m \in 1..Len(keybindings) :
           m \notin {i, j} => (SeqOf(m) = <<>> \/ SeqOf(m)[1] # SeqOf(i)[1])

\* the longer entry j was registered before the shorter entry i: the chords
\* of i give MoreChordsNeeded, and a command is found on their first chord
\* only for the whole sequence of j
LongerFirst(i, j) ==
    /\ last'.chords = SeqOf(i) => last'.result = MoreChordsNeeded
    /\ (last'.result.type = "Found" /\ last'.chords[1] = SeqOf(i)[1]) =>
           /\ last'.chords = SeqOf(j)
           /\ last'.result.commandId = keybindings[j].commandId

(* C37 as stated: of two eligible entries of which one is a strict prefix   *)
(* of the other, the one registered first decides every keydown: with the   *)
(* shorter first its chords give Found and no keydown completes the longer, *)
(* with the longer first the chords of the shorter give MoreChordsNeeded    *)
(* and the shorter's command is never found.                                *)
C37_Original ==
    [][last'.op = "key" =>
          \A i, j \in 1..Len(keybindings) :
              PrefixPair(i, j) =>
                  IF i < j
                  THEN /\ last'.chords = SeqOf(i) =>
                              last'.result = Found(keybindings[i].commandId)
                       /\ last'.chords # SeqOf(j)
                  ELSE LongerFirst(i, j)]_vars

(* C37 amended: with the shorter first its chords give Found and leave the *)
(* buffer empty, so that no sequence begun while both are registered        *)
(* reaches the longer; a buffer that was pending before the two were        *)
(* registered in this order can still complete the longer.  With the longer *)
(* first the chords of the shorter give MoreChordsNeeded and the shorter's  *)
(* command is never found.                                                  *)
C37_FirstRegistered ==
    [][last'.op = "key" =>
          \A i, j \in 1..Len(keybindings) :
              PrefixPair(i, j) =>
                  IF i < j
                  THEN /\ last'.chords = SeqOf(i) =>
                              /\ last'.result = Found(keybindings[i].commandId)
                              /\ currentChords' = <<>>
                       /\ last'.chords = SeqOf(j) => currentChords # <<>>
                  ELSE LongerFirst(i, j)]_vars

\* the longer entry was registered first and the chord of the shorter one
\* was pressed
C37_Witness ==
    /\ last.op = "key"
    /\ last.result = MoreChordsNeeded
    /\ \E i, j \in 1..Len(keybindings) :
           j < i /\ PrefixPair(i, j) /\ last.chords = SeqOf(i)

\* getContext(id)[key]: undefined for a key the snapshot does not hold
SnapshotEntry(id, key) ==
    IF key \in DOMAIN GetContextOf(id) THEN GetContextOf(id)[key] ELSE Undef

(* C38: for every live scope id and key, getValue(key, id) equals           *)
(* getContext(id)[key], also when an ancestor of the scope was disposed.    *)
C38_ValueIsSnapshotEntry ==
    \A id \in LiveScopes : GetValue(KTheme, id) = SnapshotEntry(id, KTheme)

\* the list or bucket without the entry
Without(entries, entry) ==
    LET Other_(kb) == kb # entry
    IN  SelectSeq(entries, Other_)

(* C39: the Disposable that registerKeybinding returned removes only the   *)
(* entry its call registered: its dispose, also a second one and one after  *)
(* another entry with the same id was registered, leaves every other entry  *)
(* in the list and in the index.                                            *)
C39_OnlyOwnEntry ==
    [][\A kb \in KeybindingCatalogue :
          last'.op = "disposable.dispose" /\ last'.disposed = << kb >> =>
              /\ keybindings' = Without(keybindings, Normalized(kb, platform))
              /\ \A c \in DOMAIN keybindingMap :
                     MapGet(keybindingMap', c) =
                         Without(keybindingMap[c], Normalized(kb, platform))]_vars

(* C40: set or reset on a key handle whose scope was disposed throws,      *)
(* stores the value in no scope and calls no listener.                      *)
C40_DisposedHandleThrows ==
    [][last'.op \in {"set", "reset"} /\ last'.scope \notin contexts =>
          /\ last'.threw
          /\ ~last'.assigned
          /\ last'.delivered = <<>>
          /\ scopes' = scopes
          /\ rootValues' = rootValues]_vars

\* reset on a handle of a disposed scope threw while a listener was
\* subscribed
C40_Witness ==
    /\ last.op = "reset"
    /\ last.scope \notin contexts
    /\ last.scope \in 1..Len(scopes)
    /\ last.threw
    /\ listeners # <<>>

====
